---- MODULE Spec2Model ----
(***************************************************************************)
(* Model of the multilingual mandi platform's product search subsystem:   *)
(* the Product record's stock handling (models/product.py), the document   *)
(* store adapter (elasticsearch_client.py) and the search orchestrator     *)
(* with its recommendation engine (search/product_search.py).              *)
(*                                                                         *)
(* The module holds several specifications over the same variables:       *)
(*   SpecProduct      - one Product row and update_stock;                  *)
(*   SpecSetters      - one Product row and all its content setters;       *)
(*   SpecSearch       - search_products in front of a document store;      *)
(*   SpecAutocorrect  - search_with_autocorrect in front of the same store;*)
(*   SpecAlternatives - search_products with the whole catalogue on a page;*)
(*   SpecRecommend    - the recommendation engine called directly;         *)
(*   SpecCrud         - ProductCRUD create/delete with index maintenance;  *)
(*   SpecOrdering     - search_products over documents that tie on every   *)
(*                      sort key;                                          *)
(*   SpecAdapter      - the adapter's index and document operations;       *)
(*   SpecConnect      - tasks obtaining the shared manager and client;     *)
(*   SpecHelpers      - the pure helpers of the search service;            *)
(*   SpecUpdate       - two concurrent ProductCRUD updates of one product. *)
(***************************************************************************)
EXTENDS Integers, Sequences, FiniteSets, TLC

VARIABLES
    \* ---- Product row (models/product.py) ----
    stock_quantity,              \* Product.stock_quantity
    availability_status,         \* Product.availability_status
    elasticsearch_sync_version,  \* Product.elasticsearch_sync_version
    elasticsearch_synced_at,     \* Product.elasticsearch_synced_at (None or a time)
    last_call,                   \* the last Product method called, with its argument
    names,                       \* Product.names: language -> text
    descriptions,                \* Product.descriptions: language -> text
    attributes,                  \* Product.attributes: key -> value
    images,                      \* Product.images (a list)
    tags,                        \* Product.tags (a list)
    search_keywords,             \* Product.search_keywords (a list)
    \* ---- database (crud/product.py) ----
    db,                          \* the products table: id -> committed row
    row,                         \* the committed row of the product under update
    \* ---- document store and its adapter (elasticsearch_client.py) ----
    index_exists,                \* the "products" index exists in the store
    doc,                         \* the indexed document of the product under update
    es_global,                   \* the module global _es_manager (0: None, else an instance id)
    managers,                    \* constructed managers: instance id -> its client (0: None)
    clients_constructed,         \* AsyncElasticsearch instances constructed so far
    epoch,                       \* close_elasticsearch calls completed so far
    \* ---- asyncio tasks ----
    pc,                          \* task -> where it is suspended
    session,                     \* task -> its local variables
    \* ---- search service (search/product_search.py) ----
    es_manager,                  \* which adapter ProductSearchService.es_manager holds
    index,                       \* the "products" index: document id -> indexed state
    call,                        \* the search call that produced envelope (op idle: none)
    store_log,                   \* the exchanges that call had with the store, in order
    envelope                     \* the value that call returned

content_vars == <<names, descriptions, attributes, images, tags, search_keywords>>
product_vars == <<stock_quantity, availability_status, elasticsearch_sync_version,
                  elasticsearch_synced_at, last_call, content_vars>>
runtime_vars == <<row, index_exists, doc, es_global, managers, clients_constructed,
                  epoch, pc, session>>
search_vars == <<es_manager, index, call, store_log, envelope, db, runtime_vars>>
vars == <<stock_quantity, availability_status, elasticsearch_sync_version,
          elasticsearch_synced_at, last_call, names, descriptions, attributes, images,
          tags, search_keywords, db, row, index_exists, doc, es_global, managers,
          clients_constructed, epoch, pc, session, es_manager, index, call, store_log,
          envelope>>

None == "None"

(***************************************************************************)
(* Bounds of the model.                                                    *)
(***************************************************************************)
MinStock == 2         \* quantities range over -MinStock .. MaxStock
MaxStock == 12
MaxSyncVersion == 4   \* cap on elasticsearch_sync_version
MaxDocs == 5          \* documents of the catalogue
MaxValues == 2        \* distinct tag / image / keyword / text values
MaxIndexed == 3       \* documents 1 .. MaxIndexed are indexed where every document state is explored
MaxPage == 2          \* page ranges over 0 .. MaxPage
MaxTasks == 4          \* request tasks running concurrently
MaxUpdaters == 2       \* concurrent ProductCRUD update calls on one product
MaxCloses == 1         \* close_elasticsearch calls considered
MaxPageSize == 2      \* page_size ranges over 0 .. MaxPageSize

StockValues == (0 - MinStock) .. MaxStock

(***************************************************************************)
(* models/enums.py                                                         *)
(***************************************************************************)
AvailabilityStatus ==
    {"available", "limited_stock", "out_of_stock", "seasonal", "discontinued", "pre_order"}

(***************************************************************************)
(* models/product.py : Product                                             *)
(***************************************************************************)
LowStockThreshold == 10

\* update_stock with the limited-stock test off by one (< instead of <=).
stock_availability_strict(new_quantity) ==
    IF new_quantity <= 0 THEN "out_of_stock"
    ELSE IF new_quantity < LowStockThreshold THEN "limited_stock"
    ELSE "available"

\* The if/elif/else of Product.update_stock.
stock_availability(new_quantity) ==
    IF new_quantity <= 0 THEN "out_of_stock"
    ELSE IF new_quantity <= LowStockThreshold THEN "limited_stock"
    ELSE "available"

\* _mark_for_elasticsearch_sync leaving the last-synced marker in place.
mark_without_clearing ==
    /\ elasticsearch_sync_version' = elasticsearch_sync_version + 1
    /\ UNCHANGED elasticsearch_synced_at

\* Product._mark_for_elasticsearch_sync
mark_for_elasticsearch_sync ==
    /\ elasticsearch_sync_version' = elasticsearch_sync_version + 1
    /\ elasticsearch_synced_at' = None

\* Product.update_stock(new_quantity)
update_stock(new_quantity) ==
    /\ elasticsearch_sync_version < MaxSyncVersion
    /\ stock_quantity' = new_quantity
    /\ availability_status' = stock_availability(new_quantity)
    /\ mark_for_elasticsearch_sync
    /\ last_call' = [op |-> "update_stock", arg |-> new_quantity]
    /\ UNCHANGED content_vars
    /\ UNCHANGED search_vars

IdleCall == [op |-> "idle"]
NoEnvelope == [error |-> None]

\* No manager constructed yet: the module global is None.
ManagerUnused ==
    /\ es_global = 0
    /\ managers = <<>>
    /\ clients_constructed = 0
    /\ epoch = 0

\* No task running and no product under concurrent update.
TasksUnused ==
    /\ row = <<>>
    /\ doc = <<>>
    /\ pc = <<>>
    /\ session = <<>>

\* The store's index in place, no manager constructed, no task running.
RuntimeUnused ==
    /\ index_exists = TRUE
    /\ ManagerUnused
    /\ TasksUnused

\* No search call outstanding.
SearchIdle ==
    /\ call = IdleCall
    /\ store_log = <<>>
    /\ envelope = NoEnvelope

\* The search side at rest, as the Product specification leaves it.
SearchUnused ==
    /\ es_manager = "ElasticsearchManager"
    /\ index = <<>>
    /\ db = <<>>
    /\ SearchIdle
    /\ RuntimeUnused

\* Product.__init__: the dict and list columns default to empty.
ContentUnset ==
    /\ names = <<>>
    /\ descriptions = <<>>
    /\ attributes = <<>>
    /\ images = <<>>
    /\ tags = <<>>
    /\ search_keywords = <<>>

\* A Product as its constructor leaves it: any status and stock the caller
\* passed, elasticsearch_sync_version defaulting to 1.
InitProduct ==
    /\ stock_quantity \in StockValues
    /\ availability_status \in AvailabilityStatus
    /\ elasticsearch_sync_version = 1
    /\ elasticsearch_synced_at \in {None, "synced"}
    /\ last_call = [op |-> "init", arg |-> 0]
    /\ ContentUnset
    /\ SearchUnused

NextProduct ==
    \E q \in StockValues : update_stock(q)

SpecProduct == InitProduct /\ [][NextProduct]_vars

(***************************************************************************)
(* models/product.py : the content setters of Product.  Texts, tags, image *)
(* URLs and keywords are opaque values, written 1 .. MaxValues.            *)
(***************************************************************************)
Values == 1 .. MaxValues
Languages == {"en", "hi"}
AttributeKeys == {"origin"}

\* value in list
InList(list, value) == \E i \in 1 .. Len(list) : list[i] = value

\* list.remove(value): the first occurrence is taken out.
RECURSIVE list_remove(_, _)
list_remove(list, value) ==
    IF list = <<>> THEN <<>>
    ELSE IF Head(list) = value THEN Tail(list)
    ELSE <<Head(list)>> \o list_remove(Tail(list), value)

\* The append without its membership test.
append_always(list, value) == Append(list, value)

\* if value not in list: list.append(value)
append_if_absent(list, value) ==
    IF InList(list, value) THEN list ELSE Append(list, value)

\* if list and value in list: list.remove(value)
remove_if_present(list, value) ==
    IF list # <<>> /\ InList(list, value) THEN list_remove(list, value) ELSE list

\* dict[key] = value
dict_set(dict, key, value) ==
    [k \in DOMAIN dict \cup {key} |-> IF k = key THEN value ELSE dict[k]]

\* The setter marks the product for sync only inside its if.
MarkIf(changed) ==
    IF changed
    THEN elasticsearch_sync_version < MaxSyncVersion /\ mark_for_elasticsearch_sync
    ELSE UNCHANGED <<elasticsearch_sync_version, elasticsearch_synced_at>>

\* Product.set_name(language, name)
set_name(language, name) ==
    /\ names' = dict_set(names, language, name)
    /\ MarkIf(TRUE)
    /\ last_call' = [op |-> "set_name", arg |-> name]
    /\ UNCHANGED <<stock_quantity, availability_status>>
    /\ UNCHANGED <<descriptions, attributes, images, tags, search_keywords>>
    /\ UNCHANGED search_vars

\* Product.set_description(language, description)
set_description(language, description) ==
    /\ descriptions' = dict_set(descriptions, language, description)
    /\ MarkIf(TRUE)
    /\ last_call' = [op |-> "set_description", arg |-> description]
    /\ UNCHANGED <<stock_quantity, availability_status>>
    /\ UNCHANGED <<names, attributes, images, tags, search_keywords>>
    /\ UNCHANGED search_vars

\* Product.set_attribute(key, value)
set_attribute(key, value) ==
    /\ attributes' = dict_set(attributes, key, value)
    /\ MarkIf(TRUE)
    /\ last_call' = [op |-> "set_attribute", arg |-> value]
    /\ UNCHANGED <<stock_quantity, availability_status>>
    /\ UNCHANGED <<names, descriptions, images, tags, search_keywords>>
    /\ UNCHANGED search_vars

\* Product.add_image(image_url)
add_image(image_url) ==
    /\ images' = append_if_absent(images, image_url)
    /\ MarkIf(~InList(images, image_url))
    /\ last_call' = [op |-> "add_image", arg |-> image_url]
    /\ UNCHANGED <<stock_quantity, availability_status>>
    /\ UNCHANGED <<names, descriptions, attributes, tags, search_keywords>>
    /\ UNCHANGED search_vars

\* Product.remove_image(image_url)
remove_image(image_url) ==
    /\ images' = remove_if_present(images, image_url)
    /\ MarkIf(images # <<>> /\ InList(images, image_url))
    /\ last_call' = [op |-> "remove_image", arg |-> image_url]
    /\ UNCHANGED <<stock_quantity, availability_status>>
    /\ UNCHANGED <<names, descriptions, attributes, tags, search_keywords>>
    /\ UNCHANGED search_vars

\* Product.add_tag(tag)
add_tag(tag) ==
    /\ tags' = append_if_absent(tags, tag)
    /\ MarkIf(~InList(tags, tag))
    /\ last_call' = [op |-> "add_tag", arg |-> tag]
    /\ UNCHANGED <<stock_quantity, availability_status>>
    /\ UNCHANGED <<names, descriptions, attributes, images, search_keywords>>
    /\ UNCHANGED search_vars

\* Product.remove_tag(tag)
remove_tag(tag) ==
    /\ tags' = remove_if_present(tags, tag)
    /\ MarkIf(tags # <<>> /\ InList(tags, tag))
    /\ last_call' = [op |-> "remove_tag", arg |-> tag]
    /\ UNCHANGED <<stock_quantity, availability_status>>
    /\ UNCHANGED <<names, descriptions, attributes, images, search_keywords>>
    /\ UNCHANGED search_vars

\* Product.add_search_keyword(keyword)
add_search_keyword(keyword) ==
    /\ search_keywords' = append_if_absent(search_keywords, keyword)
    /\ MarkIf(~InList(search_keywords, keyword))
    /\ last_call' = [op |-> "add_search_keyword", arg |-> keyword]
    /\ UNCHANGED <<stock_quantity, availability_status>>
    /\ UNCHANGED <<names, descriptions, attributes, images, tags>>
    /\ UNCHANGED search_vars

\* The quantities the setter specification passes to update_stock: one out
\* of stock, one available.
StockSamples == {0, MaxStock}

\* A new Product with empty content, synced or not.
InitSetters ==
    /\ stock_quantity = MaxStock
    /\ availability_status = "available"
    /\ elasticsearch_sync_version = 1
    /\ elasticsearch_synced_at \in {None, "synced"}
    /\ last_call = [op |-> "init", arg |-> 0]
    /\ ContentUnset
    /\ SearchUnused

NextSetters ==
    \/ \E language \in Languages, name \in Values : set_name(language, name)
    \/ \E language \in Languages, description \in Values :
          set_description(language, description)
    \/ \E key \in AttributeKeys, value \in Values : set_attribute(key, value)
    \/ \E image_url \in Values : add_image(image_url)
    \/ \E image_url \in Values : remove_image(image_url)
    \/ \E tag \in Values : add_tag(tag)
    \/ \E tag \in Values : remove_tag(tag)
    \/ \E keyword \in Values : add_search_keyword(keyword)
    \/ \E q \in StockSamples : update_stock(q)

SpecSetters == InitSetters /\ [][NextSetters]_vars

(***************************************************************************)
(* C1: after every Product.update_stock(q), whatever the prior state,      *)
(* stock_quantity = q and availability_status is out_of_stock if q <= 0,   *)
(* limited_stock if 0 < q <= 10 and available if q > 10: the status is     *)
(* determined by the last quantity alone.                                  *)
(***************************************************************************)
C1_StockDerivedAvailability ==
    last_call.op = "update_stock" =>
        /\ stock_quantity = last_call.arg
        /\ (last_call.arg <= 0 => availability_status = "out_of_stock")
        /\ (last_call.arg > 0 /\ last_call.arg <= 10 => availability_status = "limited_stock")
        /\ (last_call.arg > 10 => availability_status = "available")

\* A second update_stock, to the boundary quantity 10, on a product whose
\* previous update left it in another status.
C1_Witness ==
    /\ last_call = [op |-> "update_stock", arg |-> 10]
    /\ elasticsearch_sync_version >= 3
    /\ availability_status = "limited_stock"

(***************************************************************************)
(* The catalogue: the fixed content of the documents the index may hold.   *)
(* What varies per behaviour (index) is which of them are indexed, active  *)
(* and in stock.                                                           *)
(***************************************************************************)
DocIds == 1 .. MaxDocs

\* The products table with no row committed.
NoRow == [exists |-> FALSE, is_active |-> TRUE]
NoRows == [d \in DocIds |-> NoRow]

doc_name(d) ==
    CASE d % 4 = 1 -> "Rice"
      [] d % 4 = 2 -> "rice"
      [] d % 4 = 3 -> "Rcee"
      [] OTHER     -> "Wheat"

doc_category(d) == IF d % 4 = 0 THEN "pulses" ELSE "grains"
doc_quality(d) == IF d % 2 = 1 THEN "standard" ELSE "premium"
doc_city(d) == IF d % 2 = 1 THEN "pune" ELSE "delhi"
doc_state(d) == IF d % 2 = 1 THEN "mh" ELSE "dl"
doc_price(d) == 100 * d
doc_created_at(d) == (d + 1) \div 2   \* documents 1,2 (and 3,4) share a creation time
doc_updated_at(d) == d
doc_featured(d) == IF d = 1 THEN 1 ELSE 0
\* The relevance score the store computes; documents 3 and 4 agree on it and
\* on their creation time.
doc_score(d) == IF d % 4 = 0 THEN 2 ELSE 1 + (d % 2)

doc_keywords(d) == IF d % 4 = 2 THEN <<"RiceBag", "rice">> ELSE <<>>

\* str.lower() on the names, keywords and queries of the model.
lower(s) == IF s = "Rice" THEN "rice" ELSE IF s = "Rcee" THEN "rcee"
            ELSE IF s = "Wheat" THEN "wheat" ELSE IF s = "RiceBag" THEN "ricebag" ELSE s

\* str.startswith on the names, keywords and queries of the model.
StartsWith(s, q) == q = "" \/ s = q \/ (q = "rice" /\ s = "ricebag")

\* str.strip() on the queries of the model.
strip(s) == IF s = " " THEN "" ELSE s

\* Python truthiness of a str.
truthy(s) == s # ""

Queries == {"", " ", "rice"}

\* A location argument; is_none models None (or an empty dict), "" a missing key.
NoLocation == [is_none |-> TRUE, city |-> "", state |-> "", pincode |-> "",
               coordinates |-> FALSE, radius_km |-> 0]
PuneLocation == [is_none |-> FALSE, city |-> "pune", state |-> "mh", pincode |-> "",
                 coordinates |-> FALSE, radius_km |-> 0]
Locations == {NoLocation, PuneLocation}

(***************************************************************************)
(* Query clauses as the document store sees them.  t is the clause type,   *)
(* f the field, v the value set, gte/lte range bounds, boost in tenths.    *)
(***************************************************************************)
Clause(t, f, v, boost) == [t |-> t, f |-> f, v |-> v, gte |-> 0, lte |-> 0, boost |-> boost]
Range(f, gte, lte, boost) == [t |-> "range", f |-> f, v |-> {}, gte |-> gte, lte |-> lte, boost |-> boost]
IdTerm(d) == [t |-> "id", f |-> "id", v |-> {}, gte |-> d, lte |-> d, boost |-> 0]
NullClause == Clause("null", "", {}, 0)
IsActiveTerm == Clause("term", "is_active", {"true"}, 0)

\* The value of field f in the indexed document d, as a string.
DocField(d, f) ==
    CASE f = "is_active" -> IF index[d].is_active THEN "true" ELSE "false"
      [] f = "availability_status" -> index[d].availability_status
      [] f = "category_id" -> doc_category(d)
      [] f = "quality_grade" -> doc_quality(d)
      [] f = "location.city" -> doc_city(d)
      [] f = "location.state" -> doc_state(d)
      [] f = "is_featured" -> IF doc_featured(d) = 1 THEN "true" ELSE "false"
      [] f = "names" -> lower(doc_name(d))
      [] OTHER -> ""

\* Does the store's text analysis match document d for clause type t and text q?
\*   text     : the three-tier multi_match of the primary search (fuzziness AUTO)
\*   fuzzy    : fuzziness 2, prefix_length 1, or wildcard *q*
\*   prefix   : prefix / wildcard on the name or on a keyword (field f)
TextMatches(d, t, f, q) ==
    LET n == lower(doc_name(d)) IN
    CASE t = "text"   -> n = lower(q)
      [] t = "fuzzy"  -> (lower(q) = "rice" /\ n \in {"rice", "rcee"})
      [] t = "prefix" ->
            IF f = "search_keywords"
            THEN \E j \in 1 .. Len(doc_keywords(d)) : StartsWith(lower(doc_keywords(d)[j]), q)
            ELSE StartsWith(n, q)
      [] OTHER        -> FALSE

ClauseHolds(d, c) ==
    CASE c.t = "match_all" -> TRUE
      [] c.t = "id" -> d = c.gte
      [] c.t \in {"term", "terms"} ->
            IF c.f = "search_keywords"
            THEN \E j \in 1 .. Len(doc_keywords(d)) : doc_keywords(d)[j] \in c.v
            ELSE DocField(d, c.f) \in c.v
      [] c.t = "location_bool" -> doc_city(d) \in c.v \/ doc_state(d) \in c.v
      [] c.t = "geo_distance" -> doc_city(d) = "pune"
      [] c.t = "range" ->
            IF c.f = "base_price" THEN c.gte <= doc_price(d) /\ doc_price(d) <= c.lte
            ELSE TRUE
      [] c.t \in {"text", "fuzzy", "prefix"} -> \E q \in c.v : TextMatches(d, c.t, c.f, q)
      [] OTHER -> FALSE     \* a null clause matches nothing

\* A bool query: must, filter, should, must_not and minimum_should_match.
QueryMatches(d, q) ==
    /\ index[d].present
    /\ \A c \in q.must \cup q.filter : ClauseHolds(d, c)
    /\ \A c \in q.must_not : ~ClauseHolds(d, c)
    /\ Cardinality({c \in q.should : ClauseHolds(d, c)}) >= q.minimum_should_match
    /\ (q.must = {} /\ q.filter = {} /\ q.should # {}) =>
            \E c \in q.should : ClauseHolds(d, c)

(***************************************************************************)
(* The store's ordering of hits.  A sort list is a sequence of             *)
(* [field, order] keys; documents equal on every key come in any order.    *)
(***************************************************************************)
SortKey(f, o) == [field |-> f, order |-> o]

DocSortValue(d, f) ==
    CASE f = "_score" -> doc_score(d)
      [] f = "created_at" -> doc_created_at(d)
      [] f = "updated_at" -> doc_updated_at(d)
      [] f = "base_price" -> doc_price(d)
      [] f = "is_featured" -> doc_featured(d)
      [] OTHER -> 0

\* a sorts strictly before b under the keys sort[k..].
RECURSIVE StrictlyBefore(_, _, _, _)
StrictlyBefore(a, b, sort, k) ==
    IF k > Len(sort) THEN FALSE
    ELSE LET va == DocSortValue(a, sort[k].field)
             vb == DocSortValue(b, sort[k].field)
         IN IF va = vb THEN StrictlyBefore(a, b, sort, k + 1)
            ELSE IF sort[k].order = "asc" THEN va < vb ELSE va > vb

\* Every order of the documents M the store may return for the sort list
\* (no sort list: by score descending, the store's default).
StoreOrders(M, sort) ==
    LET keys == IF sort = <<>> THEN <<SortKey("_score", "desc")>> ELSE sort
        n == Cardinality(M)
    IN {s \in [1 .. n -> M] :
            /\ \A i, j \in 1 .. n : i # j => s[i] # s[j]
            /\ \A i, j \in 1 .. n : i < j => ~StrictlyBefore(s[j], s[i], keys, 1)}

Min(a, b) == IF a <= b THEN a ELSE b

\* The page [from_, from_ + size) of an ordered result.
PageOf(ordered, from_, size) ==
    IF from_ >= Len(ordered) THEN <<>>
    ELSE SubSeq(ordered, from_ + 1, Min(from_ + size, Len(ordered)))

\* Terms aggregation buckets over the matching documents: name -> key -> count.
Buckets(M, f) ==
    {[key |-> k, doc_count |-> Cardinality({d \in M : DocField(d, f) = k})] :
        k \in {DocField(d, f) : d \in M}}

(***************************************************************************)
(* elasticsearch_client.py : ElasticsearchManager                          *)
(***************************************************************************)
ErrorResponse == [hits |-> <<>>, total |-> 0, error |-> TRUE, aggregations |-> {}]

\* ElasticsearchManager.search(index_type, query, size, from_, sort): the body
\* sent to client.search, and the except branch that turns any store failure
\* (unreachable, timed out, or a request the store rejects such as a negative
\* from or size) into an empty-hits response carrying "error".
\* up: the store answers; ordered: the matching documents in the store's order.
es_search(query, size, from_, sort, aggs, up, ordered) ==
    IF ~up \/ size < 0 \/ from_ < 0
    THEN ErrorResponse
    ELSE [hits |-> PageOf(ordered, from_, size),
          total |-> Len(ordered),
          error |-> FALSE,
          aggregations |-> {[name |-> a.name, buckets |-> Buckets({ordered[i] : i \in 1 .. Len(ordered)}, a.field)] : a \in aggs}]

\* Does a call es_manager.search(..., aggs=...) bind?  ElasticsearchManager.search
\* declares (index_type, query, size, from_, sort) only; the stand-in that the
\* tests assign to search_service.es_manager accepts any keyword.
accepts_aggs(manager) == manager # "ElasticsearchManager"

Managers == {"ElasticsearchManager", "stand_in"}

\* The documents matching a bool query.
Matching(q) == {d \in DocIds : QueryMatches(d, q)}

\* One exchange with the store, as logged in store_log.
Exchange(op, id, query, size, from_, sort, aggs, response) ==
    [op |-> op, id |-> id, query |-> query, size |-> size, from_ |-> from_, sort |-> sort,
     aggs |-> aggs, response |-> response]

BoolQuery(must, filter, should, must_not, msm) ==
    [must |-> must, filter |-> filter, should |-> should, must_not |-> must_not,
     minimum_should_match |-> msm]
NoQuery == BoolQuery({}, {}, {}, {}, 0)

\* A store that has a document for every id.
get_document_always_found(d, up) == [raised |-> ~up, found |-> up]

\* ElasticsearchManager.get_document: the source, None on NotFoundError; any
\* other store failure propagates to the caller.
\* Returns [raised, found] for document id d with the store up or not.
get_document(d, up) ==
    [raised |-> ~up, found |-> up /\ d \in DocIds /\ index[d].present]

GetDocumentExchange(d, up) ==
    Exchange("get_document", d, NoQuery, 0, 0, <<>>, {},
             [hits |-> IF get_document(d, up).found THEN <<d>> ELSE <<>>,
              total |-> 0, error |-> ~up, aggregations |-> {}])

(***************************************************************************)
(* search/product_search.py : ProductRecommendationEngine                  *)
(***************************************************************************)
QualityGrade == {"premium", "standard", "economy", "organic", "fair_trade"}

\* A table with the default row only.
get_quality_alternatives_default(current_quality) == {"standard", "premium"}

\* ProductRecommendationEngine._get_quality_alternatives
get_quality_alternatives(current_quality) ==
    CASE current_quality = "economy" -> {"economy", "standard", "premium", "organic"}
      [] current_quality = "standard" -> {"standard", "premium", "organic"}
      [] current_quality = "premium" -> {"premium", "organic"}
      [] current_quality = "organic" -> {"organic", "premium"}
      [] current_quality = "fair_trade" -> {"fair_trade", "organic", "premium"}
      [] OTHER -> {"standard", "premium"}

\* ProductRecommendationEngine._build_location_boost: a nested bool whose should
\* holds the city term (boost) and the state term (boost * 0.7), or None (the
\* null clause) when there is nothing to boost.
build_location_boost(location, boost) ==
    IF location.is_none THEN NullClause
    ELSE IF location.city # "" \/ location.state # ""
         THEN Clause("location_bool", "location", {location.city, location.state} \ {""}, boost)
         ELSE NullClause

\* The query get_alternative_products builds for source document d.
alternatives_query(d, user_location) ==
    BoolQuery(
        {IsActiveTerm,
         Clause("terms", "availability_status", {"available", "limited_stock"}, 0)},
        {},
        {Clause("term", "category_id", {doc_category(d)}, 80),
         Range("base_price", doc_price(d) \div 2, (doc_price(d) * 3) \div 2, 40),
         Clause("terms", "quality_grade", get_quality_alternatives(doc_quality(d)), 30),
         build_location_boost(user_location, 20),
         Clause("terms", "tags", {}, 25),
         Clause("terms", "search_keywords",
                {doc_keywords(d)[j] : j \in 1 .. Len(doc_keywords(d))}, 20)},
        {IdTerm(d)},
        1)

ScoreDesc == <<SortKey("_score", "desc")>>

\* ProductRecommendationEngine.get_alternative_products(out_of_stock_product_id,
\* user_location, limit): every value it can return, with the exchanges it had
\* with the store: [result, log].
get_alternative_products(d, user_location, limit) ==
    LET q == alternatives_query(d, user_location) IN
    \* get_document raises: the except branch returns []
    {[result |-> <<>>, log |-> <<GetDocumentExchange(d, FALSE)>>]}
    \cup
    (IF ~get_document(d, TRUE).found
     THEN {[result |-> <<>>, log |-> <<GetDocumentExchange(d, TRUE)>>]}
     ELSE {[result |-> r.hits,
            log |-> <<GetDocumentExchange(d, TRUE),
                      Exchange("search", 0, q, limit, 0, ScoreDesc, {}, r)>>] :
             r \in {es_search(q, limit, 0, ScoreDesc, {}, up, o) :
                        up \in BOOLEAN, o \in StoreOrders(Matching(q), ScoreDesc)}})

\* The query get_similar_products builds for source document d.
similar_query(d, exclude_out_of_stock) ==
    BoolQuery(
        {IsActiveTerm},
        {},
        {Clause("term", "category_id", {doc_category(d)}, 50),
         Clause("terms", "tags", {}, 30),
         Range("base_price", (doc_price(d) * 7) \div 10, (doc_price(d) * 13) \div 10, 20),
         Clause("term", "quality_grade", {doc_quality(d)}, 25),
         Clause("term", "location.state", {doc_state(d)}, 15),
         Clause("terms", "search_keywords",
                {doc_keywords(d)[j] : j \in 1 .. Len(doc_keywords(d))}, 18)},
        {IdTerm(d)} \cup
            (IF exclude_out_of_stock
             THEN {Clause("term", "availability_status", {"out_of_stock"}, 0)}
             ELSE {}),
        1)

\* ProductRecommendationEngine.get_similar_products(product_id, limit,
\* exclude_out_of_stock): every value it can return, with its exchanges with
\* the store: [result, log].
get_similar_products(d, limit, exclude_out_of_stock) ==
    LET q == similar_query(d, exclude_out_of_stock) IN
    \* get_document raises: the except branch returns []
    {[result |-> <<>>, log |-> <<GetDocumentExchange(d, FALSE)>>]}
    \cup
    (IF ~get_document(d, TRUE).found
     THEN {[result |-> <<>>, log |-> <<GetDocumentExchange(d, TRUE)>>]}
     ELSE {[result |-> r.hits,
            log |-> <<GetDocumentExchange(d, TRUE),
                      Exchange("search", 0, q, limit, 0, ScoreDesc, {}, r)>>] :
             r \in {es_search(q, limit, 0, ScoreDesc, {}, up, o) :
                        up \in BOOLEAN, o \in StoreOrders(Matching(q), ScoreDesc)}})

(***************************************************************************)
(* search/product_search.py : ProductSearchService.get_search_suggestions  *)
(***************************************************************************)
suggestions_query(query, language) ==
    BoolQuery({}, {IsActiveTerm},
              {Clause("prefix", language, {lower(query)}, 30),
               Clause("prefix", "search_keywords", {lower(query)}, 20),
               Clause("prefix", "wildcard", {lower(query)}, 10)},
              {}, 1)

\* The inner loop over one hit's search_keywords.
RECURSIVE KeywordLoop(_, _, _, _, _)
KeywordLoop(kws, j, acc, query, limit) ==
    IF j > Len(kws) THEN acc
    ELSE LET k == kws[j]
             take == /\ StartsWith(lower(k), lower(query))
                     /\ lower(k) \notin acc.seen
                     /\ Len(acc.suggestions) < limit
         IN KeywordLoop(kws, j + 1,
                        IF take THEN [suggestions |-> Append(acc.suggestions, k),
                                      seen |-> acc.seen \cup {lower(k)}]
                        ELSE acc,
                        query, limit)

\* The loop over the hits: the name first (break once limit names are in),
\* then the hit's keywords.
RECURSIVE SuggestLoop(_, _, _, _, _)
SuggestLoop(hits, i, acc, query, limit) ==
    IF i > Len(hits) THEN acc
    ELSE LET name == doc_name(hits[i])
             fresh == lower(name) \notin acc.seen
             acc1 == IF fresh THEN [suggestions |-> Append(acc.suggestions, name),
                                    seen |-> acc.seen \cup {lower(name)}]
                     ELSE acc
         IN IF fresh /\ Len(acc1.suggestions) >= limit THEN acc1
            ELSE SuggestLoop(hits, i + 1,
                             KeywordLoop(doc_keywords(hits[i]), 1, acc1, query, limit),
                             query, limit)

Take(seq, n) == IF Len(seq) <= n THEN seq ELSE SubSeq(seq, 1, n)

\* get_search_suggestions(query, language, limit): every value it can return,
\* with its exchange with the store.
get_search_suggestions(query, language, limit) ==
    LET q == suggestions_query(query, language) IN
    {[result |-> Take(SuggestLoop(r.hits, 1, [suggestions |-> <<>>, seen |-> {}],
                                  query, limit).suggestions, limit),
      log |-> <<Exchange("search", 0, q, limit * 2, 0, <<>>, {}, r)>>] :
        r \in {es_search(q, limit * 2, 0, <<>>, {}, up, o) :
                  up \in BOOLEAN, o \in StoreOrders(Matching(q), <<>>)}}

(***************************************************************************)
(* search/product_search.py : ProductSearchService                         *)
(***************************************************************************)
NoRange == [is_none |-> TRUE, min |-> 0, max |-> 0]

\* The location filters and boosts of _build_enhanced_search_query.
location_filters(location) ==
    IF location.is_none THEN {}
    ELSE (IF location.city # "" THEN {Clause("term", "location.city", {location.city}, 0)} ELSE {})
         \cup (IF location.state # "" THEN {Clause("term", "location.state", {location.state}, 0)} ELSE {})
         \cup (IF location.pincode # "" THEN {Clause("term", "location.pincode", {location.pincode}, 0)} ELSE {})
         \cup (IF location.coordinates /\ location.radius_km # 0
               THEN {Clause("geo_distance", "location.coordinates", {}, 0)} ELSE {})

location_boosts(location, boost_local) ==
    IF location.is_none \/ ~boost_local THEN {}
    ELSE (IF location.city # "" THEN {Clause("term", "location.city", {location.city}, 20)} ELSE {})
         \cup (IF location.state # "" THEN {Clause("term", "location.state", {location.state}, 15)} ELSE {})
         \cup (IF location.pincode # "" THEN {Clause("term", "location.pincode", {location.pincode}, 25)} ELSE {})
         \cup (IF location.coordinates /\ location.radius_km # 0
               THEN {Clause("geo_distance", "location.coordinates", {}, 30)} ELSE {})

\* The fixed ranking boosts appended to the should list.
ranking_boosts ==
    {Clause("term", "is_featured", {"true"}, 20),
     Clause("term", "quality_grade", {"premium"}, 18),
     Clause("term", "quality_grade", {"organic"}, 20),
     Clause("term", "quality_grade", {"fair_trade"}, 19),
     Clause("term", "quality_grade", {"standard"}, 10),
     Clause("term", "quality_grade", {"economy"}, 9),
     Clause("term", "availability_status", {"available"}, 20),
     Clause("term", "availability_status", {"limited_stock"}, 15),
     Clause("term", "availability_status", {"seasonal"}, 12),
     Clause("term", "availability_status", {"pre_order"}, 10),
     Clause("term", "availability_status", {"out_of_stock"}, 1),
     Range("updated_at", 0, 0, 13)}

\* ProductSearchService._build_enhanced_search_query.  filters is a set of
\* [key, values] pairs; quality_grades and availability_statuses are sets
\* (empty for None); the three-tier text bool is kept as one text clause.
build_enhanced_search_query(query, language, filters, location, price_range, quality_grades, availability_statuses, boost_local) ==
    BoolQuery(
        IF truthy(query) /\ truthy(strip(query))
        THEN {Clause("text", language, {strip(query)}, 0)}
        ELSE {Clause("match_all", "", {}, 0)},
        {IsActiveTerm}
          \cup (IF price_range.is_none THEN {}
                ELSE {Range("base_price", price_range.min, price_range.max, 0)})
          \cup (IF quality_grades = {} THEN {}
                ELSE {Clause("terms", "quality_grade", quality_grades, 0)})
          \cup (IF availability_statuses = {} THEN {}
                ELSE {Clause("terms", "availability_status", availability_statuses, 0)})
          \cup location_filters(location)
          \cup {Clause("terms", f.key, f.values, 0) : f \in filters},
        location_boosts(location, boost_local) \cup ranking_boosts,
        {},
        0)

\* A sort list without the score key.
build_sort_criteria_no_score(sort_by, location) ==
    (IF sort_by = "price_asc" THEN <<SortKey("base_price", "asc")>> ELSE <<>>)
    \o <<SortKey("created_at", "desc")>>

\* ProductSearchService._build_sort_criteria
build_sort_criteria(sort_by, location) ==
    (CASE sort_by = "price_asc" -> <<SortKey("base_price", "asc")>>
       [] sort_by = "price_desc" -> <<SortKey("base_price", "desc")>>
       [] sort_by = "date_desc" -> <<SortKey("created_at", "desc")>>
       [] sort_by = "date_asc" -> <<SortKey("created_at", "asc")>>
       [] sort_by = "updated_desc" -> <<SortKey("updated_at", "desc")>>
       [] sort_by = "trending" -> <<SortKey("is_featured", "desc"),
                                    SortKey("updated_at", "desc"),
                                    SortKey("_score", "desc")>>
       [] sort_by = "distance" /\ ~location.is_none /\ location.coordinates ->
                                  <<SortKey("_geo_distance", "asc")>>
       [] sort_by = "quality_desc" -> <<SortKey("_script", "desc")>>
       [] OTHER -> <<>>)
    \o (IF sort_by # "relevance" THEN <<SortKey("_score", "desc")>> ELSE <<>>)
    \o <<SortKey("created_at", "desc")>>

\* ProductSearchService._build_aggregations (the price_ranges range aggregation
\* is kept as a terms aggregation over the price).
build_aggregations ==
    {[name |-> "categories", field |-> "category_id"],
     [name |-> "quality_grades", field |-> "quality_grade"],
     [name |-> "availability_status", field |-> "availability_status"],
     [name |-> "locations", field |-> "location.state"]}

\* ProductSearchService._process_aggregations
process_aggregations(aggregations) ==
    {[name |-> a.name,
      values |-> {[key |-> b.key, count |-> b.doc_count] : b \in a.buckets}] :
        a \in aggregations}

\* The except branch computing has_prev from the page, as the try body does.
error_envelope_with_prev(page, page_size, e) ==
    [products |-> <<>>, out_of_stock |-> <<>>, alternatives |-> <<>>,
     suggestions |-> <<>>, facets |-> {}, total |-> 0, page |-> page,
     page_size |-> page_size, total_pages |-> 0, has_next |-> FALSE,
     has_prev |-> page > 1, error |-> e]

\* The except branch of search_products.
error_envelope(page, page_size, e) ==
    [products |-> <<>>, out_of_stock |-> <<>>, alternatives |-> <<>>,
     suggestions |-> <<>>, facets |-> {}, total |-> 0, page |-> page,
     page_size |-> page_size, total_pages |-> 0, has_next |-> FALSE,
     has_prev |-> FALSE, error |-> e]

\* Hits are kept by document id; their availability is the indexed one.
IsOutOfStock(d) == index[d].availability_status = "out_of_stock"

\* The partition with the else dropped: every hit is appended to products.
EveryHit(d) == TRUE

NotOutOfStock(d) == ~IsOutOfStock(d)

\* The loop with a failed lookup discarding what the later lookups find.
RECURSIVE alternatives_for_aborting(_, _)
alternatives_for_aborting(oos, location) ==
    IF oos = <<>> THEN {[result |-> <<>>, log |-> <<>>]}
    ELSE {[result |-> IF a.result = <<>> THEN <<>> ELSE a.result \o rest.result,
           log |-> a.log \o rest.log] :
            a \in get_alternative_products(Head(oos), location, 2),
            rest \in alternatives_for_aborting(Tail(oos), location)}

\* The loop over out_of_stock_products[:3]: every outcome of the lookups, the
\* results extended in order.
RECURSIVE alternatives_for(_, _)
alternatives_for(oos, location) ==
    IF oos = <<>> THEN {[result |-> <<>>, log |-> <<>>]}
    ELSE {[result |-> a.result \o rest.result, log |-> a.log \o rest.log] :
            a \in get_alternative_products(Head(oos), location, 2),
            rest \in alternatives_for(Tail(oos), location)}

NothingFetched == {[result |-> <<>>, log |-> <<>>]}

\* The loop header without its slice: every out-of-stock hit is looked up.
all_out_of_stock(oos) == oos

\* out_of_stock_products[:3]
first_out_of_stock(oos) == Take(oos, 3)

\* The returned dict with total_pages rounded down instead of up.
success_envelope_floor(response, products, oos, alternatives, suggestions, page, page_size) ==
    [products |-> products, out_of_stock |-> oos, alternatives |-> alternatives,
     suggestions |-> suggestions,
     facets |-> process_aggregations(response.aggregations),
     total |-> response.total, page |-> page, page_size |-> page_size,
     total_pages |-> response.total \div page_size,
     has_next |-> page * page_size < response.total,
     has_prev |-> page > 1,
     error |-> None]

\* The dict search_products returns once the store has answered with response.
success_envelope(response, products, oos, alternatives, suggestions, page, page_size) ==
    [products |-> products, out_of_stock |-> oos, alternatives |-> alternatives,
     suggestions |-> suggestions,
     facets |-> process_aggregations(response.aggregations),
     total |-> response.total, page |-> page, page_size |-> page_size,
     total_pages |-> (response.total + page_size - 1) \div page_size,
     has_next |-> page * page_size < response.total,
     has_prev |-> page > 1,
     error |-> None]

\* Every [envelope, log] a call of search_products can end in.
search_products_outcomes(query, language, filters, location, price_range, quality_grades, availability_statuses, page, page_size, sort_by, include_alternatives, boost_local) ==
    LET search_query == build_enhanced_search_query(query, language, filters, location,
                            price_range, quality_grades, availability_statuses, boost_local)
        sort_criteria == build_sort_criteria(sort_by, location)
        from_index == (page - 1) * page_size
        aggs == build_aggregations
    IN
    IF ~accepts_aggs(es_manager)
    THEN \* TypeError: search() got an unexpected keyword argument 'aggs'
         {[envelope |-> error_envelope(page, page_size, "TypeError"), log |-> <<>>]}
    ELSE
      UNION {
        LET hits == response.hits
            products == SelectSeq(hits, NotOutOfStock)
            oos == SelectSeq(hits, IsOutOfStock)
            primary == <<Exchange("search", 0, search_query, page_size, from_index,
                                  sort_criteria, aggs, response)>>
        IN {[envelope |->
                IF page_size = 0
                THEN error_envelope(page, page_size, "ZeroDivisionError")
                ELSE success_envelope(response, products, oos, alt.result, sug.result,
                                      page, page_size),
             log |-> primary \o alt.log \o sug.log] :
              alt \in (IF include_alternatives /\ oos # <<>>
                       THEN alternatives_for(first_out_of_stock(oos), location)
                       ELSE NothingFetched),
              sug \in (IF response.total < 5 /\ truthy(query)
                       THEN get_search_suggestions(query, language, 3)
                       ELSE NothingFetched)} :
        response \in {es_search(search_query, page_size, from_index, sort_criteria, aggs, up, o) :
                         up \in BOOLEAN,
                         o \in StoreOrders(Matching(search_query), sort_criteria)}}

\* ProductSearchService.search_products, the whole handler.
search_products(query, language, filters, location, price_range, quality_grades, availability_statuses, page, page_size, sort_by, include_alternatives, boost_local) ==
    /\ call = IdleCall
    /\ \E out \in search_products_outcomes(query, language, filters, location,
                      price_range, quality_grades, availability_statuses, page,
                      page_size, sort_by, include_alternatives, boost_local) :
          /\ envelope' = out.envelope
          /\ store_log' = out.log
    /\ call' = [op |-> "search_products", query |-> query, location |-> location,
                page |-> page, page_size |-> page_size, sort_by |-> sort_by,
                include_alternatives |-> include_alternatives,
                boost_local |-> boost_local]
    /\ UNCHANGED <<es_manager, index, db, runtime_vars>>
    /\ UNCHANGED product_vars

\* The second-pass query of search_with_autocorrect: a bool with a should list
\* only (fuzziness 2, prefix_length 1 multi_match, and a wildcard on the name).
fuzzy_query(query, language) ==
    BoolQuery({}, {},
              {Clause("fuzzy", language, {query}, 0),
               Clause("fuzzy", "wildcard", {query}, 0)},
              {}, 0)

\* The replacement test with ties going to the fuzzy pass.
fuzzy_not_smaller(fuzzy_total, first_total) == fuzzy_total >= first_total

\* The fuzzy pass replaces the first pass only when it reports more results.
fuzzy_is_larger(fuzzy_total, first_total) == fuzzy_total > first_total

\* Every [envelope, log] a call of search_with_autocorrect can end in; the
\* keyword arguments are passed on to search_products, page_size also to the
\* second pass.  The second pass names no sort and no aggregations.
search_with_autocorrect_outcomes(query, language, location, page, page_size, sort_by, include_alternatives, boost_local) ==
    UNION {
        IF first.envelope.total < 3
        THEN {[envelope |->
                  IF fuzzy_is_larger(response.total, first.envelope.total)
                  THEN [first.envelope EXCEPT !.products = response.hits,
                                              !.total = response.total]
                       @@ [autocorrected |-> TRUE, original_query |-> query]
                  ELSE first.envelope,
               log |-> first.log \o <<Exchange("search", 0, fuzzy_query(query, language),
                                               page_size, 0, <<>>, {}, response)>>] :
                response \in {es_search(fuzzy_query(query, language), page_size, 0, <<>>, {}, up, o) :
                                 up \in BOOLEAN,
                                 o \in StoreOrders(Matching(fuzzy_query(query, language)), <<>>)}}
        ELSE {first} :
      first \in search_products_outcomes(query, language, {}, location, NoRange, {}, {},
                    page, page_size, sort_by, include_alternatives, boost_local)}

\* ProductSearchService.search_with_autocorrect, the whole handler.
search_with_autocorrect(query, language, location, page, page_size, sort_by, include_alternatives, boost_local) ==
    /\ call = IdleCall
    /\ \E out \in search_with_autocorrect_outcomes(query, language, location, page,
                      page_size, sort_by, include_alternatives, boost_local) :
          /\ envelope' = out.envelope
          /\ store_log' = out.log
    /\ call' = [op |-> "search_with_autocorrect", query |-> query, location |-> location,
                page |-> page, page_size |-> page_size, sort_by |-> sort_by,
                include_alternatives |-> include_alternatives,
                boost_local |-> boost_local]
    /\ UNCHANGED <<es_manager, index, db, runtime_vars>>
    /\ UNCHANGED product_vars

\* The caller takes the returned envelope; the service keeps nothing of the call.
Collect ==
    /\ call # IdleCall
    /\ call' = IdleCall
    /\ store_log' = <<>>
    /\ envelope' = NoEnvelope
    /\ UNCHANGED <<es_manager, index, db, runtime_vars>>
    /\ UNCHANGED product_vars

\* A catalogue entry with no document in the index.
Absent == [present |-> FALSE, is_active |-> TRUE, availability_status |-> "available"]

\* An indexed document's varying state.
DocStates ==
    {[present |-> TRUE, is_active |-> TRUE, availability_status |-> "available"],
     [present |-> TRUE, is_active |-> TRUE, availability_status |-> "out_of_stock"],
     [present |-> TRUE, is_active |-> FALSE, availability_status |-> "available"]}

SortBys == {"relevance", "price_desc"}
Pages == 0 .. MaxPage
PageSizes == 0 .. MaxPageSize

ProductUnused ==
    /\ stock_quantity = 0
    /\ availability_status = "available"
    /\ elasticsearch_sync_version = 1
    /\ elasticsearch_synced_at = None
    /\ last_call = [op |-> "init", arg |-> 0]
    /\ ContentUnset

InitSearch ==
    /\ es_manager \in Managers
    /\ db = NoRows
    /\ index \in [DocIds -> DocStates \cup {Absent}]
    /\ \A d \in DocIds : index[d].present <=> d <= MaxIndexed
    /\ SearchIdle
    /\ RuntimeUnused
    /\ ProductUnused

NextSearch ==
    \/ \E query \in Queries, location \in Locations, page \in Pages,
          page_size \in PageSizes, sort_by \in SortBys,
          include_alternatives \in BOOLEAN :
          \* boost_local is read only when a location is given
          \E boost_local \in (IF location.is_none THEN {TRUE} ELSE BOOLEAN) :
            search_products(query, "en", {}, location, NoRange, {}, {}, page,
                            page_size, sort_by, include_alternatives, boost_local)
    \/ Collect

SpecSearch == InitSearch /\ [][NextSearch]_vars

\* An index that also holds document 4, which ties with document 3 on score
\* and creation time, queried a full page at a time.
InitOrdering ==
    /\ es_manager \in Managers
    /\ db = NoRows
    /\ index \in [DocIds -> DocStates \cup {Absent}]
    /\ \A d \in DocIds : index[d].present <=> d <= MaxIndexed + 1
    /\ SearchIdle
    /\ RuntimeUnused
    /\ ProductUnused

NextOrdering ==
    \/ \E query \in Queries, sort_by \in SortBys :
          search_products(query, "en", {}, NoLocation, NoRange, {}, {}, 1,
                          MaxPageSize, sort_by, FALSE, TRUE)
    \/ Collect

SpecOrdering == InitOrdering /\ [][NextOrdering]_vars

\* The autocorrect entry point in front of the same store.
NextAutocorrect ==
    \/ \E query \in Queries, location \in Locations, page \in Pages,
          page_size \in PageSizes, include_alternatives \in BOOLEAN :
            search_with_autocorrect(query, "en", location, page, page_size,
                                    "relevance", include_alternatives, TRUE)
    \/ Collect

SpecAutocorrect == InitSearch /\ [][NextAutocorrect]_vars

\* The whole catalogue indexed and active, each document in or out of stock,
\* and one page that holds every document.
InitAlternatives ==
    /\ es_manager = "stand_in"
    /\ db = NoRows
    /\ index \in [DocIds -> {s \in DocStates : s.is_active}]
    /\ SearchIdle
    /\ RuntimeUnused
    /\ ProductUnused

NextAlternatives ==
    \/ \E include_alternatives \in BOOLEAN :
          search_products("", "en", {}, NoLocation, NoRange, {}, {}, 1, MaxDocs,
                          "relevance", include_alternatives, TRUE)
    \/ Collect

SpecAlternatives == InitAlternatives /\ [][NextAlternatives]_vars

\* A caller of the recommendation engine: get_similar_products returns a list.
similar_products(product_id, limit, exclude_out_of_stock) ==
    /\ call = IdleCall
    /\ \E out \in get_similar_products(product_id, limit, exclude_out_of_stock) :
          /\ envelope' = [error |-> None, result |-> out.result]
          /\ store_log' = out.log
    /\ call' = [op |-> "get_similar_products", product_id |-> product_id,
                limit |-> limit]
    /\ UNCHANGED <<es_manager, index, db, runtime_vars>>
    /\ UNCHANGED product_vars

\* A caller of the recommendation engine: get_alternative_products returns a list.
alternative_products(out_of_stock_product_id, user_location, limit) ==
    /\ call = IdleCall
    /\ \E out \in get_alternative_products(out_of_stock_product_id, user_location, limit) :
          /\ envelope' = [error |-> None, result |-> out.result]
          /\ store_log' = out.log
    /\ call' = [op |-> "get_alternative_products",
                product_id |-> out_of_stock_product_id, limit |-> limit]
    /\ UNCHANGED <<es_manager, index, db, runtime_vars>>
    /\ UNCHANGED product_vars

Limits == 1 .. MaxPageSize

NextRecommend ==
    \/ \E product_id \in DocIds, limit \in Limits, exclude_out_of_stock \in BOOLEAN :
          similar_products(product_id, limit, exclude_out_of_stock)
    \/ \E product_id \in DocIds, user_location \in Locations, limit \in Limits :
          alternative_products(product_id, user_location, limit)
    \/ Collect

\* Documents above MaxIndexed have no document in the index.
SpecRecommend == InitSearch /\ [][NextRecommend]_vars

(***************************************************************************)
(* crud/product.py : ProductCRUD, with the index operations it calls.      *)
(* Each database step (flush, execute, commit, refresh) and each store     *)
(* request either succeeds or fails; the handler's arguments say which.    *)
(***************************************************************************)
\* ElasticsearchManager.index_document: True, or False on any failure.
es_index_document(d, up) == up

\* ElasticsearchManager.delete_document: True, False on NotFoundError; any
\* other store failure propagates.  [raised, deleted]
es_delete_document(d, up) ==
    [raised |-> ~up, deleted |-> up /\ index[d].present]

\* ProductSearchService.index_product(product_doc): the document always has
\* its id; the result is index_document's.
index_product(d, up) == es_index_document(d, up)

\* ProductSearchService.delete_product(product_id): delete_document's result,
\* False when it raised.  True iff the document was removed.
service_delete_product(d, up) ==
    ~es_delete_document(d, up).raised /\ es_delete_document(d, up).deleted

\* The document to_elasticsearch_document builds for a newly created product.
NewDocument == [present |-> TRUE, is_active |-> TRUE, availability_status |-> "available"]

\* ProductCRUD._sync_to_elasticsearch(product): index the document and, on
\* success, stamp elasticsearch_synced_at and commit; a failing commit is
\* caught and reported as False.  [indexed, committed, success]
sync_to_elasticsearch(d, up, sync_commit_ok) ==
    [indexed |-> index_product(d, up),
     committed |-> index_product(d, up) /\ sync_commit_ok,
     success |-> index_product(d, up) /\ sync_commit_ok]

\* ProductCRUD.create_product, the whole handler, for the id d the flush
\* assigns.  returned: a Product (TRUE) or None (FALSE).
create_product(d, flush_ok, up, sync_commit_ok, commit_ok, refresh_ok) ==
    /\ call = IdleCall
    /\ ~db[d].exists /\ ~index[d].present
    /\ LET sync == sync_to_elasticsearch(d, up, sync_commit_ok)
           committed == flush_ok /\ (sync.committed \/ commit_ok)
           returned == flush_ok /\ commit_ok /\ refresh_ok
       IN /\ index' = IF flush_ok /\ sync.indexed
                      THEN [index EXCEPT ![d] = NewDocument] ELSE index
          /\ db' = IF committed
                   THEN [db EXCEPT ![d] = [exists |-> TRUE, is_active |-> TRUE]] ELSE db
          /\ envelope' = [error |-> None, returned |-> returned]
    /\ call' = [op |-> "create_product", product_id |-> d, had_document |-> FALSE]
    /\ store_log' = <<>>
    /\ UNCHANGED <<es_manager, runtime_vars>>
    /\ UNCHANGED product_vars

\* ProductCRUD.delete_product(product_id), the soft delete, the whole handler.
delete_product(d, execute_ok, commit_ok, up) ==
    /\ call = IdleCall
    /\ LET updated == execute_ok /\ db[d].exists /\ commit_ok
       IN /\ db' = IF updated THEN [db EXCEPT ![d].is_active = FALSE] ELSE db
          /\ index' = IF updated /\ service_delete_product(d, up)
                      THEN [index EXCEPT ![d] = Absent] ELSE index
          /\ envelope' = [error |-> None, returned |-> updated]
    /\ call' = [op |-> "delete_product", product_id |-> d,
                had_document |-> index[d].present]
    /\ store_log' = <<>>
    /\ UNCHANGED <<es_manager, runtime_vars>>
    /\ UNCHANGED product_vars

\* The ids the database hands out.
CrudIds == 1 .. MaxIndexed

\* An empty table and an empty index.
InitCrud ==
    /\ es_manager = "ElasticsearchManager"
    /\ db = NoRows
    /\ index = [d \in DocIds |-> Absent]
    /\ SearchIdle
    /\ RuntimeUnused
    /\ ProductUnused

NextCrud ==
    \/ \E d \in CrudIds, flush_ok, up, sync_commit_ok, commit_ok, refresh_ok \in BOOLEAN :
          create_product(d, flush_ok, up, sync_commit_ok, commit_ok, refresh_ok)
    \/ \E d \in CrudIds, execute_ok, commit_ok, up \in BOOLEAN :
          delete_product(d, execute_ok, commit_ok, up)
    \/ Collect

SpecCrud == InitCrud /\ [][NextCrud]_vars

(***************************************************************************)
(* ElasticsearchManager index and document operations                      *)
(* (elasticsearch_client.py)                                               *)
(***************************************************************************)

\* indices.create re-raising every RequestError.
es_create_index_reraising(exists, up) ==
    [raised |-> ~up \/ exists, returned |-> up /\ ~exists]

\* ElasticsearchManager.create_index: True when created; a RequestError whose
\* text names resource_already_exists_exception is answered True; any other
\* failure propagates.  [raised, returned]
es_create_index(exists, up) ==
    [raised |-> ~up, returned |-> up]

\* ElasticsearchManager.delete_index: True when deleted, False on
\* NotFoundError; any other failure propagates.  [raised, returned]
es_delete_index(exists, up) ==
    [raised |-> ~up, returned |-> up /\ exists]

\* create_index("products", mapping) against a store that is up or down.
create_index(up) ==
    /\ call' = [op |-> "create_index", up |-> up, existed |-> index_exists, id |-> 0,
                had_document |-> FALSE]
    /\ envelope' = es_create_index(index_exists, up)
    /\ index_exists' = (index_exists \/ up)
    /\ store_log' = <<>>
    /\ UNCHANGED <<index, es_manager, db, row, doc, es_global, managers,
                   clients_constructed, epoch, pc, session>>
    /\ UNCHANGED product_vars

\* delete_index("products"): the index goes with all its documents.
delete_index(up) ==
    /\ call' = [op |-> "delete_index", up |-> up, existed |-> index_exists, id |-> 0,
                had_document |-> FALSE]
    /\ envelope' = es_delete_index(index_exists, up)
    /\ index_exists' = (index_exists /\ ~up)
    /\ index' = IF up THEN [d \in DocIds |-> Absent] ELSE index
    /\ store_log' = <<>>
    /\ UNCHANGED <<es_manager, db, row, doc, es_global, managers,
                   clients_constructed, epoch, pc, session>>
    /\ UNCHANGED product_vars

\* delete_document("products", d).
delete_document(d, up) ==
    /\ call' = [op |-> "delete_document", up |-> up, existed |-> index_exists, id |-> d,
                had_document |-> index[d].present]
    /\ envelope' = [raised |-> es_delete_document(d, up).raised,
                    returned |-> es_delete_document(d, up).deleted]
    /\ index' = IF es_delete_document(d, up).deleted
                THEN [index EXCEPT ![d] = Absent] ELSE index
    /\ store_log' = <<>>
    /\ UNCHANGED <<index_exists, es_manager, db, row, doc, es_global, managers,
                   clients_constructed, epoch, pc, session>>
    /\ UNCHANGED product_vars

\* index_document("products", document, d): the store creates a missing index
\* on the first write; every failure is answered False.
index_document(d, up) ==
    /\ call' = [op |-> "index_document", up |-> up, existed |-> index_exists, id |-> d,
                had_document |-> index[d].present]
    /\ envelope' = [raised |-> FALSE, returned |-> es_index_document(d, up)]
    /\ index' = IF es_index_document(d, up)
                THEN [index EXCEPT ![d] = NewDocument] ELSE index
    /\ index_exists' = (index_exists \/ es_index_document(d, up))
    /\ store_log' = <<>>
    /\ UNCHANGED <<es_manager, db, row, doc, es_global, managers,
                   clients_constructed, epoch, pc, session>>
    /\ UNCHANGED product_vars

\* The index may or may not exist yet; a missing index holds no document.
InitAdapter ==
    /\ es_manager = "ElasticsearchManager"
    /\ db = NoRows
    /\ index_exists \in BOOLEAN
    /\ index \in [DocIds -> {Absent, NewDocument}]
    /\ \A d \in DocIds : index[d].present => (index_exists /\ d <= MaxIndexed)
    /\ SearchIdle
    /\ ManagerUnused
    /\ TasksUnused
    /\ ProductUnused

NextAdapter ==
    \/ \E up \in BOOLEAN : create_index(up)
    \/ \E up \in BOOLEAN : delete_index(up)
    \/ \E d \in CrudIds, up \in BOOLEAN : delete_document(d, up)
    \/ \E d \in CrudIds, up \in BOOLEAN : index_document(d, up)

SpecAdapter == InitAdapter /\ [][NextAdapter]_vars

(***************************************************************************)
(* The shared manager and its client (elasticsearch_client.py).  Tasks are *)
(* coroutines on one event loop: a step runs from one await to the next.   *)
(* Task 0 is the shutdown path, tasks 1..MaxTasks serve requests.          *)
(***************************************************************************)

Tasks == 1 .. MaxTasks
NoSession == [manager |-> 0, client |-> 0]

\* A manager that forgets the client it constructed.
client_never_kept(m) == TRUE

\* The test "self.client is None" of connect().
client_is_none(m) == managers[m] = 0

\* get_elasticsearch_manager(): synchronous, so the test of the global and
\* the construction are one step.
get_elasticsearch_manager(t) ==
    /\ pc[t] = "start"
    /\ IF es_global = 0
       THEN /\ managers' = Append(managers, 0)
            /\ es_global' = Len(managers) + 1
       ELSE UNCHANGED <<managers, es_global>>
    /\ session' = [session EXCEPT ![t].manager = es_global']
    /\ pc' = [pc EXCEPT ![t] = "has_manager"]
    /\ UNCHANGED <<clients_constructed, epoch, row, doc, index_exists>>
    /\ UNCHANGED <<es_manager, index, call, store_log, envelope, db>>
    /\ UNCHANGED product_vars

\* ElasticsearchManager.connect() on the manager the task holds: no await
\* between the test and the assignment.
connect(t) ==
    /\ pc[t] = "has_manager"
    /\ LET m == session[t].manager IN
       IF client_is_none(m)
       THEN /\ clients_constructed' = clients_constructed + 1
            /\ managers' = [managers EXCEPT ![m] = clients_constructed + 1]
       ELSE UNCHANGED <<clients_constructed, managers>>
    /\ session' = [session EXCEPT ![t].client = managers'[session[t].manager]]
    /\ pc' = [pc EXCEPT ![t] = "connected"]
    /\ UNCHANGED <<es_global, epoch, row, doc, index_exists>>
    /\ UNCHANGED <<es_manager, index, call, store_log, envelope, db>>
    /\ UNCHANGED product_vars

\* The request is answered; its service object and client reference go.
request_done(t) ==
    /\ pc[t] = "connected"
    /\ session' = [session EXCEPT ![t] = NoSession]
    /\ pc' = [pc EXCEPT ![t] = "start"]
    /\ UNCHANGED <<es_global, managers, clients_constructed, epoch, row, doc, index_exists>>
    /\ UNCHANGED <<es_manager, index, call, store_log, envelope, db>>
    /\ UNCHANGED product_vars

\* close_elasticsearch() up to the await of client.close() in disconnect();
\* with no client there is nothing to await and the global is cleared at once.
close_elasticsearch_begin ==
    /\ pc[0] = "start"
    /\ epoch < MaxCloses
    /\ es_global # 0
    /\ IF managers[es_global] # 0
       THEN /\ pc' = [pc EXCEPT ![0] = "closing"]
            /\ session' = [session EXCEPT ![0] = [manager |-> es_global,
                                                  client |-> managers[es_global]]]
            /\ UNCHANGED <<es_global, epoch>>
       ELSE /\ es_global' = 0
            /\ epoch' = epoch + 1
            /\ UNCHANGED <<pc, session>>
    /\ UNCHANGED <<managers, clients_constructed, row, doc, index_exists>>
    /\ UNCHANGED <<es_manager, index, call, store_log, envelope, db>>
    /\ UNCHANGED product_vars

\* close_elasticsearch() after client.close() returned: the manager drops its
\* client and the global is cleared.
close_elasticsearch_end ==
    /\ pc[0] = "closing"
    /\ managers' = [managers EXCEPT ![session[0].manager] = 0]
    /\ es_global' = 0
    /\ epoch' = epoch + 1
    /\ pc' = [pc EXCEPT ![0] = "start"]
    /\ session' = [session EXCEPT ![0] = NoSession]
    /\ UNCHANGED <<clients_constructed, row, doc, index_exists>>
    /\ UNCHANGED <<es_manager, index, call, store_log, envelope, db>>
    /\ UNCHANGED product_vars

\* Module import: the global is None and no task has started.
InitConnect ==
    /\ es_manager = "ElasticsearchManager"
    /\ db = NoRows
    /\ index = [d \in DocIds |-> Absent]
    /\ index_exists = TRUE
    /\ ManagerUnused
    /\ pc = [t \in 0 .. MaxTasks |-> "start"]
    /\ session = [t \in 0 .. MaxTasks |-> NoSession]
    /\ row = <<>>
    /\ doc = <<>>
    /\ SearchIdle
    /\ ProductUnused

NextConnect ==
    \/ \E t \in Tasks : get_elasticsearch_manager(t)
    \/ \E t \in Tasks : connect(t)
    \/ \E t \in Tasks : request_done(t)
    \/ close_elasticsearch_begin
    \/ close_elasticsearch_end

SpecConnect == InitConnect /\ [][NextConnect]_vars

(***************************************************************************)
(* The pure helpers of the search service, applied to every input.         *)
(***************************************************************************)

\* Every sort_by the method names, and one it does not.
AllSortBys ==
    {"relevance", "price_asc", "price_desc", "date_desc", "date_asc", "updated_desc",
     "trending", "distance", "quality_desc", "newest"}

\* location argument: None, or a dict with any of city, state and coordinates.
HelperLocations ==
    {NoLocation} \cup
    [is_none : {FALSE}, city : {"", "pune"}, state : {"", "mh"}, pincode : {""},
     coordinates : BOOLEAN, radius_km : {0, 50}]

\* source_product.get("quality_grade", "standard"): a grade, a value that is
\* no grade, None, or no such field.
QualityInputs == QualityGrade \cup {"grade_a", None, "missing"}

sort_criteria(sort_by, location) ==
    /\ call' = [op |-> "_build_sort_criteria", sort_by |-> sort_by, location |-> location,
                quality_grade |-> None]
    /\ envelope' = [error |-> None, sort |-> build_sort_criteria(sort_by, location),
                    grades |-> {}]
    /\ store_log' = <<>>
    /\ UNCHANGED <<es_manager, index, db, runtime_vars>>
    /\ UNCHANGED product_vars

quality_alternatives(quality_grade) ==
    /\ call' = [op |-> "_get_quality_alternatives", sort_by |-> "relevance",
                location |-> NoLocation, quality_grade |-> quality_grade]
    /\ envelope' = [error |-> None, sort |-> <<>>,
                    grades |-> get_quality_alternatives(
                                  IF quality_grade = "missing" THEN "standard"
                                  ELSE quality_grade)]
    /\ store_log' = <<>>
    /\ UNCHANGED <<es_manager, index, db, runtime_vars>>
    /\ UNCHANGED product_vars

InitHelpers ==
    /\ es_manager = "ElasticsearchManager"
    /\ db = NoRows
    /\ index = [d \in DocIds |-> Absent]
    /\ SearchIdle
    /\ RuntimeUnused
    /\ ProductUnused

NextHelpers ==
    \/ \E sort_by \in AllSortBys, location \in HelperLocations :
          sort_criteria(sort_by, location)
    \/ \E quality_grade \in QualityInputs : quality_alternatives(quality_grade)

SpecHelpers == InitHelpers /\ [][NextHelpers]_vars

(***************************************************************************)
(* crud/product.py : update_product and update_stock called concurrently   *)
(* on one product, each with its own session.  A step runs from one await  *)
(* to the next; the database reads committed rows and an UPDATE writes the *)
(* columns the session changed, with the values it computed.               *)
(***************************************************************************)

Updaters == 1 .. MaxUpdaters
Columns == {"stock_quantity", "availability_status", "base_price",
            "elasticsearch_sync_version", "elasticsearch_synced_at"}

\* Product.to_elasticsearch_document of a loaded product.
to_elasticsearch_document(product) ==
    [present |-> TRUE,
     stock_quantity |-> product.stock_quantity,
     availability_status |-> product.availability_status,
     base_price |-> product.base_price,
     sync_version |-> product.elasticsearch_sync_version]

\* The in-memory change of a call: update_stock(new_quantity) sets quantity
\* and availability, update_product(base_price=value) the price; both mark
\* the product for synchronisation.
apply_update(product, op, arg) ==
    LET changed ==
          IF op = "update_stock"
          THEN [product EXCEPT !.stock_quantity = arg,
                               !.availability_status = stock_availability(arg)]
          ELSE [product EXCEPT !.base_price = arg]
    IN [changed EXCEPT
          !.elasticsearch_sync_version = product.elasticsearch_sync_version + 1,
          !.elasticsearch_synced_at = None]

\* The UPDATE a flush emits: the columns whose value differs from the loaded one.
flush(committed, loaded, current) ==
    [c \in Columns |-> IF current[c] # loaded[c] THEN current[c] ELSE committed[c]]

UpdateArgs(op) == IF op = "update_stock" THEN StockSamples ELSE Values

\* The call starts: get_product selects the row into the session.
update_load(t, op, arg) ==
    /\ pc[t] = "start"
    /\ session' = [session EXCEPT ![t] = [op |-> op, arg |-> arg, loaded |-> row,
                                          product |-> row, returned |-> None,
                                          synced |-> FALSE]]
    /\ pc' = [pc EXCEPT ![t] = "loaded"]
    /\ UNCHANGED <<row, doc>>
    /\ UNCHANGED <<index_exists, es_global, managers, clients_constructed, epoch>>
    /\ UNCHANGED <<es_manager, index, call, store_log, envelope, db>>
    /\ UNCHANGED product_vars

\* The fields are set, the product is marked, and db.commit() writes them;
\* a failing commit ends the call in the except branch (rollback, None).
update_commit(t, commit_ok) ==
    /\ pc[t] = "loaded"
    /\ LET current == apply_update(session[t].product, session[t].op, session[t].arg) IN
       IF commit_ok
       THEN /\ row' = flush(row, session[t].loaded, current)
            /\ session' = [session EXCEPT ![t].product = current]
            /\ pc' = [pc EXCEPT ![t] = "committed"]
       ELSE /\ UNCHANGED row
            /\ session' = [session EXCEPT ![t].returned = "None"]
            /\ pc' = [pc EXCEPT ![t] = "done"]
    /\ UNCHANGED doc
    /\ UNCHANGED <<index_exists, es_global, managers, clients_constructed, epoch>>
    /\ UNCHANGED <<es_manager, index, call, store_log, envelope, db>>
    /\ UNCHANGED product_vars

\* db.refresh(product): the session re-reads the committed row.
update_refresh(t, refresh_ok) ==
    /\ pc[t] = "committed"
    /\ IF refresh_ok
       THEN /\ session' = [session EXCEPT ![t].product = row, ![t].loaded = row]
            /\ pc' = [pc EXCEPT ![t] = "refreshed"]
       ELSE /\ session' = [session EXCEPT ![t].returned = "None"]
            /\ pc' = [pc EXCEPT ![t] = "done"]
    /\ UNCHANGED <<row, doc>>
    /\ UNCHANGED <<index_exists, es_global, managers, clients_constructed, epoch>>
    /\ UNCHANGED <<es_manager, index, call, store_log, envelope, db>>
    /\ UNCHANGED product_vars

\* _sync_to_elasticsearch up to its commit: the document built from the
\* session's product is written to the index; without success the call
\* returns the product as it is.
update_index(t, up) ==
    /\ pc[t] = "refreshed"
    /\ IF up
       THEN /\ doc' = to_elasticsearch_document(session[t].product)
            /\ session' = [session EXCEPT ![t].product.elasticsearch_synced_at = "now"]
            /\ pc' = [pc EXCEPT ![t] = "syncing"]
       ELSE /\ UNCHANGED doc
            /\ session' = [session EXCEPT ![t].returned = "product"]
            /\ pc' = [pc EXCEPT ![t] = "done"]
    /\ UNCHANGED row
    /\ UNCHANGED <<index_exists, es_global, managers, clients_constructed, epoch>>
    /\ UNCHANGED <<es_manager, index, call, store_log, envelope, db>>
    /\ UNCHANGED product_vars

\* The commit of elasticsearch_synced_at = now(); its failure is logged and
\* the product is returned all the same.
update_sync_commit(t, sync_commit_ok) ==
    /\ pc[t] = "syncing"
    /\ row' = IF sync_commit_ok THEN [row EXCEPT !.elasticsearch_synced_at = "now"] ELSE row
    /\ session' = [session EXCEPT ![t].returned = "product", ![t].synced = sync_commit_ok]
    /\ pc' = [pc EXCEPT ![t] = "done"]
    /\ UNCHANGED doc
    /\ UNCHANGED <<index_exists, es_global, managers, clients_constructed, epoch>>
    /\ UNCHANGED <<es_manager, index, call, store_log, envelope, db>>
    /\ UNCHANGED product_vars

\* A product that was created and synchronised: the document equals the row.
InitialRow ==
    [stock_quantity |-> MaxStock, availability_status |-> stock_availability(MaxStock),
     base_price |-> 1, elasticsearch_sync_version |-> 1,
     elasticsearch_synced_at |-> "now"]

InitUpdate ==
    /\ es_manager = "ElasticsearchManager"
    /\ db = NoRows
    /\ index = [d \in DocIds |-> Absent]
    /\ index_exists = TRUE
    /\ ManagerUnused
    /\ row = InitialRow
    /\ doc = to_elasticsearch_document(InitialRow)
    /\ pc = [t \in Updaters |-> "start"]
    /\ session = [t \in Updaters |->
                    [op |-> "none", arg |-> 0, loaded |-> InitialRow,
                     product |-> InitialRow, returned |-> None, synced |-> FALSE]]
    /\ SearchIdle
    /\ ProductUnused

NextUpdate ==
    \/ \E t \in Updaters, op \in {"update_stock", "update_product"} :
          \E arg \in UpdateArgs(op) : update_load(t, op, arg)
    \/ \E t \in Updaters, commit_ok \in BOOLEAN : update_commit(t, commit_ok)
    \/ \E t \in Updaters, refresh_ok \in BOOLEAN : update_refresh(t, refresh_ok)
    \/ \E t \in Updaters, up \in BOOLEAN : update_index(t, up)
    \/ \E t \in Updaters, sync_commit_ok \in BOOLEAN : update_sync_commit(t, sync_commit_ok)

SpecUpdate == InitUpdate /\ [][NextUpdate]_vars

(***************************************************************************)
(* Properties of search_products.                                          *)
(***************************************************************************)
Elems(seq) == {seq[i] : i \in 1 .. Len(seq)}

\* a is b with some elements left out, the rest in b's order.
RECURSIVE IsSubsequence(_, _)
IsSubsequence(a, b) ==
    IF a = <<>> THEN TRUE
    ELSE IF b = <<>> THEN FALSE
    ELSE IF Head(a) = Head(b) THEN IsSubsequence(Tail(a), Tail(b))
    ELSE IsSubsequence(a, Tail(b))

\* The call was search_products and its primary search reached the store.
PrimaryAnswered == call.op = "search_products" /\ store_log # <<>>
Primary == store_log[1]

(***************************************************************************)
(* C2: in every envelope search_products returns for a store response with *)
(* hits, products and out_of_stock together are exactly the returned hits  *)
(* (lengths add up, relative order kept), every element of out_of_stock is *)
(* out of stock and no element of products is.                             *)
(***************************************************************************)
C2_OutOfStockPartition ==
    (PrimaryAnswered /\ Primary.response.hits # <<>>) =>
        /\ Len(envelope.products) + Len(envelope.out_of_stock) = Len(Primary.response.hits)
        /\ Elems(envelope.products) \cup Elems(envelope.out_of_stock) = Elems(Primary.response.hits)
        /\ IsSubsequence(envelope.products, Primary.response.hits)
        /\ IsSubsequence(envelope.out_of_stock, Primary.response.hits)
        /\ \A d \in Elems(envelope.out_of_stock) : index[d].availability_status = "out_of_stock"
        /\ \A d \in Elems(envelope.products) : index[d].availability_status # "out_of_stock"

\* A response of two hits, the out-of-stock one first: one goes to each list.
C2_Witness ==
    /\ PrimaryAnswered
    /\ Len(Primary.response.hits) = 2
    /\ index[Primary.response.hits[1]].availability_status = "out_of_stock"
    /\ envelope.products = <<Primary.response.hits[2]>>
    /\ envelope.out_of_stock = <<Primary.response.hits[1]>>

(***************************************************************************)
(* C3: for every total the store reports, page >= 1 and page_size >= 1,    *)
(* the envelope has the store's total, the request's page and page_size,   *)
(* total_pages = ceil(total / page_size), has_prev = (page > 1) and        *)
(* has_next = (page * page_size < total), i.e. has_next iff                *)
(* page < total_pages.                                                     *)
(***************************************************************************)
C3_PaginationArithmetic ==
    (PrimaryAnswered /\ call.page >= 1 /\ call.page_size >= 1) =>
        /\ envelope.total = Primary.response.total
        /\ envelope.page = call.page
        /\ envelope.page_size = call.page_size
        /\ envelope.total_pages * call.page_size >= envelope.total
        /\ (envelope.total_pages - 1) * call.page_size < envelope.total
        /\ envelope.total_pages >= 0
        /\ envelope.has_prev = (call.page > 1)
        /\ envelope.has_next = (call.page * call.page_size < envelope.total)
        /\ envelope.has_next = (call.page < envelope.total_pages)

\* Three matches in pages of two, on the second page: two pages, a
\* previous page and no next one.
C3_Witness ==
    /\ PrimaryAnswered
    /\ Primary.response.total = 3
    /\ call.page = 2 /\ call.page_size = 2
    /\ envelope.total_pages = 2
    /\ envelope.has_prev /\ ~envelope.has_next

C5_StoreFailureSurfaced ==
    (PrimaryAnswered /\ call.page >= 1 /\ call.page_size >= 1 /\ Primary.response.error) =>
        envelope.error # None

(***************************************************************************)
(* C6: with ElasticsearchManager as the adapter, search_products executes  *)
(* its query together with the requested aggregations: the adapter's       *)
(* search accepts the aggregations argument and the call returns the       *)
(* success envelope (no error field), not the empty error envelope.        *)
(***************************************************************************)
C6_AdapterRunsAggregations ==
    (call.op = "search_products" /\ es_manager = "ElasticsearchManager"
        /\ call.page >= 1 /\ call.page_size >= 1) =>
        /\ envelope.error = None
        /\ store_log # <<>>
        /\ Primary.aggs = build_aggregations

(***************************************************************************)
(* C7: search_products normalizes its paging inputs: for any page and      *)
(* page_size the offset sent to the store is never negative, the size sent *)
(* is within 1..100, and page_size = 0 does not degrade the response to    *)
(* the error envelope.                                                     *)
(***************************************************************************)
C7_PagingNormalized ==
    call.op = "search_products" =>
        /\ store_log # <<>> => (Primary.from_ >= 0 /\ Primary.size >= 1 /\ Primary.size <= 100)
        /\ (accepts_aggs(es_manager) /\ call.page_size = 0) => envelope.error = None

(***************************************************************************)
(* C8: no inactive document is returned by any search path: every query    *)
(* sent to the store carries a mandatory is_active = true condition        *)
(* (filter or must), so no returned product is inactive.                   *)
(***************************************************************************)
C8_ActiveOnly ==
    call.op \in {"search_products", "search_with_autocorrect"} =>
        /\ \A i \in 1 .. Len(store_log) :
              store_log[i].op = "search" =>
                  IsActiveTerm \in store_log[i].query.must \cup store_log[i].query.filter
        /\ \A d \in Elems(envelope.products) : index[d].is_active

(***************************************************************************)
(* C9: for sort_by = relevance the sort list search_products sends to the  *)
(* store is [score desc, created_at desc].                                 *)
(***************************************************************************)
C9_RelevanceSort ==
    (PrimaryAnswered /\ call.sort_by = "relevance") =>
        Primary.sort = <<SortKey("_score", "desc"), SortKey("created_at", "desc")>>

(***************************************************************************)
(* C10: the alternatives list of a search_products envelope is             *)
(* deduplicated by id: no two of its elements have the same id.            *)
(***************************************************************************)
C10_AlternativesDeduplicated ==
    call.op = "search_products" =>
        \A i, j \in 1 .. Len(envelope.alternatives) :
            i # j => envelope.alternatives[i] # envelope.alternatives[j]

(***************************************************************************)
(* Properties of the alternative lookups of search_products.               *)
(***************************************************************************)
IsGetDocument(e) == e.op = "get_document"
\* The alternatives search is the one query that excludes a document id.
IsAlternativesSearch(e) == e.op = "search" /\ e.query.must_not # {}
IsAlternativesExchange(e) == IsGetDocument(e) \/ IsAlternativesSearch(e)

\* The hits of the alternatives searches of a log, in log order.
RECURSIVE AlternativesFound(_)
AlternativesFound(log) ==
    IF log = <<>> THEN <<>>
    ELSE (IF IsAlternativesSearch(Head(log)) THEN Head(log).response.hits ELSE <<>>)
         \o AlternativesFound(Tail(log))

PrimaryOutOfStock == SelectSeq(Primary.response.hits, IsOutOfStock)
LookedUp == SelectSeq(store_log, IsGetDocument)

(***************************************************************************)
(* C11: search_products looks up alternatives only when                    *)
(* include_alternatives is true and a hit is out of stock, only for the    *)
(* first 3 out-of-stock hits in hit order, and asks for at most 2 per hit; *)
(* alternatives is empty when include_alternatives is false or no hit is   *)
(* out of stock, and never has more than 6 elements.                       *)
(***************************************************************************)
C11_AlternativesLookupBounded ==
    PrimaryAnswered =>
        /\ Len(LookedUp) =
              (IF call.include_alternatives THEN Min(Len(PrimaryOutOfStock), 3) ELSE 0)
        /\ \A i \in 1 .. Len(LookedUp) : LookedUp[i].id = PrimaryOutOfStock[i]
        /\ \A i \in 1 .. Len(store_log) :
              IsAlternativesSearch(store_log[i]) =>
                  /\ call.include_alternatives
                  /\ store_log[i].size = 2
                  /\ Len(store_log[i].response.hits) <= 2
        /\ Len(envelope.alternatives) <= 6
        /\ (~call.include_alternatives \/ PrimaryOutOfStock = <<>>) =>
              envelope.alternatives = <<>>

\* Four out-of-stock hits: three lookups, one alternative found for each.
C11_Witness ==
    /\ PrimaryAnswered
    /\ call.include_alternatives
    /\ Len(PrimaryOutOfStock) = 4
    /\ Len(LookedUp) = 3
    /\ Len(envelope.alternatives) = 3

(***************************************************************************)
(* C12: a failure while fetching alternatives for one out-of-stock hit     *)
(* (get_document or the alternatives search failing) does not abort        *)
(* search_products: the envelope still carries the primary products,       *)
(* out_of_stock, total and pagination with no error, the alternatives      *)
(* found for the other hits are kept and the failed hit contributes none.  *)
(***************************************************************************)
C12_AlternativeFailureIsolated ==
    (/\ PrimaryAnswered
     /\ call.page >= 1 /\ call.page_size >= 1
     /\ \E i \in 1 .. Len(store_log) :
           IsAlternativesExchange(store_log[i]) /\ store_log[i].response.error) =>
        /\ envelope.error = None
        /\ envelope.products = SelectSeq(Primary.response.hits, NotOutOfStock)
        /\ envelope.out_of_stock = PrimaryOutOfStock
        /\ envelope.total = Primary.response.total
        /\ envelope.page = call.page /\ envelope.page_size = call.page_size
        /\ envelope.total_pages = (envelope.total + call.page_size - 1) \div call.page_size
        /\ envelope.alternatives = AlternativesFound(store_log)

\* The first lookup fails at get_document, a later one finds an alternative.
C12_Witness ==
    /\ PrimaryAnswered
    /\ Len(LookedUp) >= 2
    /\ LookedUp[1].response.error
    /\ envelope.alternatives # <<>>
    /\ envelope.error = None

(***************************************************************************)
(* C13: get_similar_products and get_alternative_products called with a    *)
(* product id that has no document in the index return the empty list,     *)
(* without raising and without issuing any search query to the store.      *)
(***************************************************************************)
C13_MissingSourceIsEmpty ==
    (/\ call.op \in {"get_similar_products", "get_alternative_products"}
     /\ ~index[call.product_id].present) =>
        /\ envelope.result = <<>>
        /\ \A i \in 1 .. Len(store_log) : store_log[i].op # "search"

\* The store answers get_document with NotFoundError; nothing else is asked.
C13_Witness ==
    /\ call.op = "get_similar_products"
    /\ ~index[call.product_id].present
    /\ store_log = <<GetDocumentExchange(call.product_id, TRUE)>>
    /\ envelope.result = <<>>

(***************************************************************************)
(* C14: search_products computes suggestions exactly when the total match  *)
(* count is below 5 and a non-empty query was given; a blank or            *)
(* whitespace-only query yields no suggestion lookup; the suggestions list *)
(* has at most 3 entries and no two entries are equal ignoring case.       *)
(***************************************************************************)
IsSuggestionsSearch(e) == e.op = "search" /\ \E c \in e.query.should : c.t = "prefix"

C14_SuggestionsWhenFewResults ==
    (PrimaryAnswered /\ call.page >= 1 /\ call.page_size >= 1) =>
        /\ (\E i \in 1 .. Len(store_log) : IsSuggestionsSearch(store_log[i]))
              <=> (Primary.response.total < 5 /\ strip(call.query) # "")
        /\ Len(envelope.suggestions) <= 3
        /\ \A i, j \in 1 .. Len(envelope.suggestions) :
              i # j => lower(envelope.suggestions[i]) # lower(envelope.suggestions[j])

(***************************************************************************)
(* C15: search_with_autocorrect issues the fuzzy second pass only when the *)
(* first pass returns total < 3; if the second pass reports strictly more  *)
(* results, the envelope has products and total from the fuzzy pass,       *)
(* autocorrected = true and original_query = the input query; otherwise    *)
(* the first-pass envelope is returned with no autocorrected flag.         *)
(***************************************************************************)
IsFuzzySearch(e) == e.op = "search" /\ \E c \in e.query.should : c.t = "fuzzy"

\* The first pass ended in the error envelope (total 0).
FirstPassFailed == ~accepts_aggs(es_manager) \/ call.page_size = 0
FirstPassTotal == IF FirstPassFailed THEN 0 ELSE store_log[1].response.total
FirstPassProducts ==
    IF FirstPassFailed THEN <<>> ELSE SelectSeq(store_log[1].response.hits, NotOutOfStock)
FuzzyPasses == {i \in 1 .. Len(store_log) : IsFuzzySearch(store_log[i])}

C15_AutocorrectFallback ==
    call.op = "search_with_autocorrect" =>
        /\ (FuzzyPasses # {}) <=> (FirstPassTotal < 3)
        /\ FuzzyPasses \subseteq {Len(store_log)}
        /\ \A i \in FuzzyPasses :
              store_log[i].response.total > FirstPassTotal =>
                  /\ envelope.products = store_log[i].response.hits
                  /\ envelope.total = store_log[i].response.total
                  /\ "autocorrected" \in DOMAIN envelope
                  /\ envelope.autocorrected
                  /\ envelope.original_query = call.query
        /\ (\A i \in FuzzyPasses : store_log[i].response.total <= FirstPassTotal) =>
                  /\ "autocorrected" \notin DOMAIN envelope
                  /\ envelope.total = FirstPassTotal
                  /\ envelope.products = FirstPassProducts
                  /\ envelope.error = (IF ~accepts_aggs(es_manager) THEN "TypeError"
                                       ELSE IF call.page_size = 0 THEN "ZeroDivisionError"
                                       ELSE None)

\* One match on the first pass, three on the fuzzy pass.
C15_Witness ==
    /\ call.op = "search_with_autocorrect"
    /\ ~FirstPassFailed
    /\ store_log[1].response.total = 1
    /\ "autocorrected" \in DOMAIN envelope
    /\ envelope.total = 3
    /\ envelope.original_query = "rice"

(***************************************************************************)
(* C16: given a location with boost_local = true, the location is a        *)
(* ranking boost and not an eligibility gate: the query carries the should *)
(* boosts for the supplied components (city 2.0, state 1.5, pincode 2.5,   *)
(* geo-radius 3.0) and documents that do not match the location remain     *)
(* eligible; with boost_local = false no location boost is added.          *)
(***************************************************************************)
IsLocationClause(c) ==
    c.f \in {"location.city", "location.state", "location.pincode", "location.coordinates"}

\* The documents eligible for the call's query when no location is given.
EligibleWithoutLocation ==
    Matching(build_enhanced_search_query(call.query, "en", {}, NoLocation, NoRange,
                                         {}, {}, call.boost_local))

C16_LocationBoostNotGate ==
    (PrimaryAnswered /\ ~call.location.is_none) =>
        /\ call.boost_local =>
              /\ Clause("term", "location.city", {call.location.city}, 20) \in Primary.query.should
              /\ Clause("term", "location.state", {call.location.state}, 15) \in Primary.query.should
              /\ EligibleWithoutLocation \subseteq Matching(Primary.query)
        /\ ~call.boost_local =>
              \A c \in Primary.query.should : ~IsLocationClause(c)

(***************************************************************************)
(* C17: after ProductCRUD.delete_product (the soft delete) succeeds, the   *)
(* product's document remains in the search index; a document leaves the   *)
(* index only on permanent deletion.                                       *)
(***************************************************************************)
C17_SoftDeleteKeepsDocument ==
    (call.op = "delete_product" /\ envelope.returned /\ call.had_document) =>
        index[call.product_id].present

(***************************************************************************)
(* C18: a search document is created alongside the product record:         *)
(* whenever create_product returns a product the index holds a document    *)
(* with its id, and whenever it returns None the index holds none.         *)
(***************************************************************************)
C18_DocumentCreatedWithProduct ==
    call.op = "create_product" =>
        (envelope.returned <=> index[call.product_id].present)

(***************************************************************************)
(* Properties of the Product setters.                                      *)
(***************************************************************************)
NoDuplicates(list) == \A i, j \in 1 .. Len(list) : i # j => list[i] # list[j]

\* The step is a setter call that changes visible content.
ContentChanged ==
    \/ last_call'.op \in {"set_name", "set_description", "set_attribute", "update_stock"}
    \/ images' # images
    \/ tags' # tags
    \/ search_keywords' # search_keywords

(***************************************************************************)
(* C19: every Product setter call that changes visible content (set_name,  *)
(* set_description, set_attribute, update_stock, and add_image,            *)
(* remove_image, add_tag, remove_tag, add_search_keyword when they change  *)
(* the list) increments elasticsearch_sync_version by exactly 1 and sets   *)
(* elasticsearch_synced_at to None; the sync version never decreases.      *)
(***************************************************************************)
C19_SettersMarkForSync ==
    [][/\ ContentChanged =>
            /\ elasticsearch_sync_version' = elasticsearch_sync_version + 1
            /\ elasticsearch_synced_at' = None
       /\ elasticsearch_sync_version' >= elasticsearch_sync_version]_vars

\* add_tag then remove_tag on a new product: two increments, marker cleared.
C19_Witness ==
    /\ last_call.op = "remove_tag"
    /\ tags = <<>>
    /\ elasticsearch_sync_version = 3
    /\ elasticsearch_synced_at = None

(***************************************************************************)
(* C20: tags, images and search keywords behave as sets: from a            *)
(* duplicate-free list, after any sequence of add/remove calls the list    *)
(* has no duplicates; adding a value already present leaves the list       *)
(* unchanged, and removing a value not present leaves it unchanged.        *)
(***************************************************************************)
C20_ListsBehaveAsSets ==
    [][/\ NoDuplicates(tags') /\ NoDuplicates(images') /\ NoDuplicates(search_keywords')
       /\ (last_call'.op = "add_tag" /\ InList(tags, last_call'.arg)) => tags' = tags
       /\ (last_call'.op = "add_tag") => InList(tags', last_call'.arg)
       /\ (last_call'.op = "remove_tag" /\ ~InList(tags, last_call'.arg)) => tags' = tags
       /\ (last_call'.op = "remove_tag") => ~InList(tags', last_call'.arg)
       /\ (last_call'.op = "add_image" /\ InList(images, last_call'.arg)) => images' = images
       /\ (last_call'.op = "add_image") => InList(images', last_call'.arg)
       /\ (last_call'.op = "remove_image" /\ ~InList(images, last_call'.arg)) => images' = images
       /\ (last_call'.op = "remove_image") => ~InList(images', last_call'.arg)
       /\ (last_call'.op = "add_search_keyword" /\ InList(search_keywords, last_call'.arg)) =>
              search_keywords' = search_keywords
       /\ (last_call'.op = "add_search_keyword") => InList(search_keywords', last_call'.arg)
      ]_vars

\* add_tag(1) on the tags [1, 2]: the list and the sync version stay.
C20_Witness ==
    /\ last_call = [op |-> "add_tag", arg |-> 1]
    /\ tags = <<1, 2>>
    /\ elasticsearch_sync_version = 3


\* C21: the adapter's index operations are idempotent as results.  Against a
\* store that answers, create_index returns True whether or not the index
\* existed, delete_index returns True exactly when the index existed and
\* delete_document returns True exactly when the document existed, none of
\* them raising; so create;create yields True,True and delete;delete yields
\* True,False.
C21_Results ==
    /\ (call.op = "create_index" /\ call.up) =>
          (~envelope.raised /\ envelope.returned /\ index_exists)
    /\ (call.op = "delete_index" /\ call.up) =>
          (~envelope.raised /\ envelope.returned = call.existed /\ ~index_exists)
    /\ (call.op = "delete_document" /\ call.up) =>
          (~envelope.raised /\ envelope.returned = call.had_document
           /\ ~index[call.id].present)

C21_Repeated ==
    /\ (call.op = "create_index" /\ call.up /\ call'.op = "create_index" /\ call'.up) =>
          (envelope.returned /\ envelope'.returned)
    /\ (call.op = "delete_index" /\ call.up /\ call'.op = "delete_index" /\ call'.up) =>
          (~envelope'.raised /\ ~envelope'.returned)
    /\ (call.op = "delete_document" /\ call.up /\ call'.op = "delete_document"
        /\ call'.up /\ call'.id = call.id) =>
          (~envelope'.raised /\ ~envelope'.returned)

C21_IndexOperationsIdempotent == [][C21_Results' /\ C21_Repeated]_vars

\* create_index answered True for an index that already existed.
C21_Witness ==
    /\ call.op = "create_index"
    /\ call.up
    /\ call.existed
    /\ envelope.returned
    /\ ~envelope.raised

\* a stands before b in seq.
Before(seq, a, b) ==
    \E i, j \in 1 .. Len(seq) : i < j /\ seq[i] = a /\ seq[j] = b

\* What the call just answered could have answered on the same index.
SameCallOutcomes ==
    search_products_outcomes(call.query, "en", {}, call.location, NoRange, {}, {},
                             call.page, call.page_size, call.sort_by,
                             call.include_alternatives, call.boost_local)

\* C22: result ordering is deterministic.  Two documents with identical score
\* and identical created_at that search_products returned in one order are in
\* that order in every answer the identical call can get on the unchanged
\* index, whatever order the store chooses among documents that are equal on
\* every sort key it was given.
C22_OrderDeterministic ==
    call.op = "search_products" =>
        \A out \in SameCallOutcomes : \A a, b \in DocIds :
            (/\ doc_score(a) = doc_score(b)
             /\ doc_created_at(a) = doc_created_at(b)
             /\ Before(envelope.products, a, b)
             /\ a \in Elems(out.envelope.products)
             /\ b \in Elems(out.envelope.products))
            => Before(out.envelope.products, a, b)

HasManager(t) == pc[t] \in {"has_manager", "connected"}

\* C23: as long as no disconnect has happened, however the tasks' calls of
\* get_elasticsearch_manager() and connect() interleave, at most one manager
\* and one client are constructed (exactly one once a task has called), and
\* every caller holds the same manager and the same client.
C23_OneManagerOneClient ==
    epoch = 0 =>
        /\ Len(managers) <= 1
        /\ clients_constructed <= 1
        /\ \A t \in Tasks : HasManager(t) =>
              (Len(managers) = 1 /\ session[t].manager = 1)
        /\ \A t \in Tasks : pc[t] = "connected" =>
              (clients_constructed = 1 /\ session[t].client = 1)

\* Two tasks connected and a third holding the manager, before any disconnect.
C23_Witness ==
    /\ epoch = 0
    /\ \E t, u, v \in Tasks :
          /\ t # u /\ t # v /\ u # v
          /\ pc[t] = "connected" /\ pc[u] = "connected" /\ pc[v] = "has_manager"
          /\ session[t].client = session[u].client
          /\ session[v].manager = session[t].manager

\* C24: for every sort_by, unknown values and distance without coordinates
\* included, the sort list ends with created_at descending; for every sort_by
\* other than relevance it holds a score-descending key before that, behind
\* the primary key where there is one; trending starts with is_featured,
\* updated_at and score, all descending.
C24_SortListHasTieBreakers ==
    call.op = "_build_sort_criteria" =>
        LET sort == envelope.sort
            n == Len(sort)
        IN /\ n >= 1
           /\ sort[n] = SortKey("created_at", "desc")
           /\ call.sort_by # "relevance" =>
                 /\ \E i \in 1 .. n - 1 : sort[i] = SortKey("_score", "desc")
                 /\ n > 2 => \E i \in 2 .. n - 1 : sort[i] = SortKey("_score", "desc")
           /\ call.sort_by = "trending" =>
                 /\ n >= 4
                 /\ sort[1] = SortKey("is_featured", "desc")
                 /\ sort[2] = SortKey("updated_at", "desc")
                 /\ sort[3] = SortKey("_score", "desc")

\* distance was asked for a location without coordinates: score, then created_at.
C24_Witness ==
    /\ call.op = "_build_sort_criteria"
    /\ call.sort_by = "distance"
    /\ ~call.location.is_none
    /\ ~call.location.coordinates
    /\ envelope.sort = <<SortKey("_score", "desc"), SortKey("created_at", "desc")>>

\* The rows of the quality table.
QualityTable(grade) ==
    CASE grade = "economy" -> {"economy", "standard", "premium", "organic"}
      [] grade = "standard" -> {"standard", "premium", "organic"}
      [] grade = "premium" -> {"premium", "organic"}
      [] grade = "organic" -> {"organic", "premium"}
      [] grade = "fair_trade" -> {"fair_trade", "organic", "premium"}

\* C25: _get_quality_alternatives answers a known grade with exactly its row
\* of the table, and every input, a missing or unknown grade included, with
\* grades out of the five quality grades only.
C25_QualityAlternativesTable ==
    call.op = "_get_quality_alternatives" =>
        /\ envelope.grades \subseteq QualityGrade
        /\ call.quality_grade \in QualityGrade =>
              envelope.grades = QualityTable(call.quality_grade)

\* A grade outside the table was answered with the default.
C25_Witness ==
    /\ call.op = "_get_quality_alternatives"
    /\ call.quality_grade = "grade_a"
    /\ envelope.grades = {"standard", "premium"}

\* The call came through the API's bounds on page and page_size.
PagedCall == call.page >= 1 /\ call.page_size >= 1

\* The store answered every request of the call.
StoreAnswered == \A i \in 1 .. Len(store_log) : ~store_log[i].response.error

\* C26: every envelope search_with_autocorrect returns keeps its pagination
\* fields consistent with its own total: total_pages is the ceiling of
\* total / page_size and has_next is page * page_size < total, also when the
\* fuzzy pass replaced products and total.
C26_AutocorrectPagination ==
    (/\ call.op = "search_with_autocorrect"
     /\ PagedCall
     /\ StoreAnswered
     /\ envelope.error = None) =>
        /\ envelope.total_pages =
              (envelope.total + call.page_size - 1) \div call.page_size
        /\ envelope.has_next = (call.page * call.page_size < envelope.total)

\* C27: in every envelope search_with_autocorrect returns, a fuzzy-replaced
\* one included, no product is out of stock and every product satisfies the
\* hard filters of the request (here: its location).
C27_AutocorrectKeepsFilters ==
    (/\ call.op = "search_with_autocorrect"
     /\ PagedCall
     /\ StoreAnswered
     /\ envelope.error = None) =>
        \A d \in Elems(envelope.products) :
            /\ ~IsOutOfStock(d)
            /\ \A c \in location_filters(call.location) : ClauseHolds(d, c)

\* C28: an envelope that carries an error is the empty envelope: no products,
\* no out_of_stock, no alternatives, no suggestions, total 0, also when the
\* first pass failed and the fuzzy pass succeeded.
C28_ErrorEnvelopeIsEmpty ==
    (/\ call.op \in {"search_products", "search_with_autocorrect"}
     /\ PagedCall
     /\ envelope.error # None) =>
        /\ envelope.products = <<>>
        /\ envelope.out_of_stock = <<>>
        /\ envelope.alternatives = <<>>
        /\ envelope.suggestions = <<>>
        /\ envelope.total = 0

\* Every concurrent call went through: committed, indexed, marked as synced.
AllUpdatesCompleted ==
    \A t \in Updaters :
        pc[t] = "done" /\ session[t].returned = "product" /\ session[t].synced

\* C29: two concurrent update_product / update_stock calls on one product.
\* Whatever the interleaving of their commits and index writes, once both
\* have completed the indexed document equals the committed row (content and
\* sync_version), a non-null elasticsearch_synced_at does not stand next to an
\* older document, and sync_version has grown by one per call.
C29_ConcurrentUpdatesConverge ==
    AllUpdatesCompleted =>
        /\ doc = to_elasticsearch_document(row)
        /\ row.elasticsearch_synced_at # None =>
              doc.sync_version >= row.elasticsearch_sync_version
        /\ row.elasticsearch_sync_version =
              InitialRow.elasticsearch_sync_version + MaxUpdaters

\* C30: after delete_product(id) returned True no later search returns the
\* product: in every reachable state the index holds no document for a
\* soft-deleted product, or holds one with is_active false, also when the
\* index delete reported not-found, returned False or raised.
C30_DeletedNeverSearchable ==
    \A d \in CrudIds :
        (db[d].exists /\ ~db[d].is_active) =>
            (~index[d].present \/ ~index[d].is_active)


=============================================================================
